---- MODULE Spec2Model ----
(***************************************************************************)
(* The per-arm online learner of Python_Interface/Recommender.py:          *)
(* class Recommender (disjoint LinUCB, optionally LinUCB+ with the RNN     *)
(* residual model) and class RNN, with the .npz snapshot file they share.  *)
(*                                                                         *)
(* Numbers.  The code computes in float64/float32.  The model computes the *)
(* same expressions exactly: A and b hold integers (features and rewards   *)
(* are drawn from small integer sets), and a score                         *)
(*     theta.x + alpha*sqrt(x A^-1 x) [+ beta.x]   [* discount]            *)
(* is kept as the exact real (num + sqrt(rad)) / den and compared exactly. *)
(* The RNN's tensors are random at construction (reset_parameters), so the *)
(* model keeps them as the symbolic term of how they were computed (which  *)
(* input, which hidden state, which parameter version), and the number     *)
(* beta.x that selection adds to a score is any value of BetaDotVals.      *)
(* Snapshot paths end in ".npz" (as every caller's does), so the path      *)
(* np.savez_compressed writes is the path np.load reads.                   *)
(***************************************************************************)
EXTENDS Integers, Sequences, FiniteSets, TLC

\* ------------------------------------------------------------------ bounds
\* Feedback calls in one behaviour (A, b and the RNN history grow with each).
MaxFeedback == 2

\* Item ids the callers use, and the feature vector each id's MusicItem carries.
Ids == {1, 2, 3}
FeaturesOf(id) == IF id = 1 THEN <<1, 0>> ELSE IF id = 2 THEN <<0, 1>> ELSE <<1, 1>>
\* playlists hold at most this many items
PlaylistLens == 0..2
RewardSet == {-1, 1}
NSet == {-1, 0, 1, 3}
AlphaSet == {0, 1}
L2Set == {0, 1}
\* discount as a fraction <<numerator, denominator>> in (0, 1]
DiscountSet == {<<1, 2>>, <<1, 1>>}
PolicySet == {"LinUCB", "LinUCB+"}
\* values of beta . x the residual model may add to an arm's score
BetaDotVals == {0, 1}

\* last_selected_id = None
None == 0

\* ------------------------------------------------------- MusicItem, numpy
MusicItem(id, features) == [id |-> id, features |-> features]

\* the MusicItem objects callers hold: one per id, and a second one for id 1
\* whose features were reloaded (MusicItem.load_x) with another vector
Items == {MusicItem(i, FeaturesOf(i)) : i \in Ids}

FeedbackItems == Items \cup {MusicItem(1, <<1, 1>>)}

Abs(n) == IF n < 0 THEN -n ELSE n

Sign(n) == IF n < 0 THEN -1 ELSE IF n = 0 THEN 0 ELSE 1

RECURSIVE Gcd(_, _)
Gcd(m, n) == IF n = 0 THEN Abs(m) ELSE Gcd(n, m % n)

\* np.eye(d) * l2
Eye(d, l) == [i \in 1..d |-> [j \in 1..d |-> IF i = j THEN l ELSE 0]]

\* np.zeros(d)
Zeros(d) == [i \in 1..d |-> 0]

\* np.outer(x, y)
Outer(x, y) == [i \in 1..Len(x) |-> [j \in 1..Len(y) |-> x[i] * y[j]]]

MatAdd(M, N) == [i \in 1..Len(M) |-> [j \in 1..Len(M[i]) |-> M[i][j] + N[i][j]]]

VecAdd(u, v) == [i \in 1..Len(u) |-> u[i] + v[i]]

VecScale(c, v) == [i \in 1..Len(v) |-> c * v[i]]

\* numpy broadcasting of the right operand of an in-place +=: an operand of
\* the target's shape as it is, one of length 1 stretched to the target's
\* shape; any other shape raises ValueError and leaves the target as it was
Broadcastable(len, d) == len = d \/ len = 1

BroadcastMat(N, d) ==
  IF Len(N) = d THEN N ELSE [i \in 1..d |-> [j \in 1..d |-> N[1][1]]]

BroadcastVec(v, d) == IF Len(v) = d THEN v ELSE [i \in 1..d |-> v[1]]

RECURSIVE SumTo(_, _)
SumTo(f, k) == IF k = 0 THEN 0 ELSE f[k] + SumTo(f, k - 1)

\* np.dot of two vectors
Dot(u, v) == SumTo([i \in 1..Len(u) |-> u[i] * v[i]], Len(u))

\* np.dot(M, v)
MatVec(M, v) == [i \in 1..Len(M) |-> Dot(M[i], v)]

\* determinant of a matrix of up to 3 rows, and adjugate of a 1x1 or 2x2
\* matrix: A^-1 = Adj(A) / Det(A)
Det(M) ==
  IF Len(M) = 1 THEN M[1][1]
  ELSE IF Len(M) = 2 THEN M[1][1] * M[2][2] - M[1][2] * M[2][1]
  ELSE M[1][1] * (M[2][2] * M[3][3] - M[2][3] * M[3][2])
       - M[1][2] * (M[2][1] * M[3][3] - M[2][3] * M[3][1])
       + M[1][3] * (M[2][1] * M[3][2] - M[2][2] * M[3][1])

Adj(M) ==
  IF Len(M) = 1 THEN <<<<1>>>>
  ELSE << <<M[2][2], -M[1][2]>>, <<-M[2][1], M[1][1]>> >>

Symmetric(M) == \A i, j \in 1..Len(M) : M[i][j] = M[j][i]

\* Sylvester's criterion: every leading principal minor is positive
PositiveDefinite(M) ==
  /\ M[1][1] > 0
  /\ Det(M) > 0

\* ------------------------------------------------------------ exact scores
\* A score is the real number (num + sqrt(rad)) / den, den > 0, rad >= 0.

\* sign of D + sqrt(X) - sqrt(Y) for integers D, X >= 0, Y >= 0
SignPos(D, X, Y) ==
  \* D > 0 here
  IF X >= Y THEN 1
  ELSE LET F == D * D - X - Y
       IN IF F > 0 THEN 1
          ELSE IF F = 0 THEN (IF X * Y > 0 THEN 1 ELSE 0)
          ELSE Sign(4 * X * Y - F * F)

SignSum(D, X, Y) ==
  IF D = 0 THEN Sign(X - Y)
  ELSE IF D > 0 THEN SignPos(D, X, Y)
  ELSE -SignPos(-D, Y, X)

\* sign of s - t
ScoreCmp(s, t) ==
  LET g == Gcd(s.den, t.den)
      u == t.den \div g
      v == s.den \div g
  IN SignSum(u * s.num - v * t.num, u * u * s.rad, v * v * t.rad)

ScoreSign(s) == SignSum(s.num, s.rad, 0)

\* pta *= discount, discount = dn / dd > 0
ScoreTimes(s, disc) ==
  [num |-> disc[1] * s.num, rad |-> disc[1] * disc[1] * s.rad, den |-> disc[2] * s.den]

\* ------------------------------------------------------------ snapshot file
\* The file at self.storage: absent, unreadable, or a readable .npz archive of
\* named arrays (data: key -> array).
NoData == [k \in {} |-> 0]

AbsentFile == [status |-> "absent", data |-> NoData]

CorruptFile == [status |-> "corrupt", data |-> NoData]

NpzFile(data) == [status |-> "ok", data |-> data]

\* f"A_{it.id}", f"b_{it.id}", f"rnn_{name}"
Key(prefix, id) == prefix \o "_" \o ToString(id)

RnnKey(name) == "rnn_" \o name

Overlay(base, over) ==
  [k \in DOMAIN base \cup DOMAIN over |-> IF k \in DOMAIN over THEN over[k] ELSE base[k]]

Range(s) == {s[i] : i \in 1..Len(s)}

PlaylistIds(pl) == {pl[i].id : i \in 1..Len(pl)}

\* the item of the playlist with this id (ids are distinct in a playlist)
ItemOf(pl, id) == CHOOSE it \in Range(pl) : it.id = id

\* ---------------------------------------------------------------- class RNN
ParamNames == {"W_ih", "b_ih", "W_hh", "b_hh", "W_output", "b_output"}

ParamShape(name, dim, hidden_size) ==
  CASE name = "W_ih" -> <<hidden_size, dim>>
    [] name = "b_ih" -> <<hidden_size>>
    [] name = "W_hh" -> <<hidden_size, hidden_size>>
    [] name = "b_hh" -> <<hidden_size>>
    [] name = "W_output" -> <<dim, hidden_size>>
    [] name = "b_output" -> <<dim>>

\* A tensor of trainable parameters as a term: the random draw it started
\* from (seed) and the optimizer steps applied to it since (the losses).
Tensor(shape, seed, steps) == [shape |-> shape, seed |-> seed, steps |-> steps]

NoneVal == [none |-> TRUE, val |-> <<>>]

Some(v) == [none |-> FALSE, val |-> v]

\* RNN.__init__: reset_parameters draws every tensor at random (seed), the
\* deferred state is None
RnnInit(dim, hidden_size, seed) ==
  [present |-> TRUE,
   dim |-> dim,
   hidden_size |-> hidden_size,
   params |-> [name \in ParamNames |-> Tensor(ParamShape(name, dim, hidden_size), seed, <<>>)],
   X_t_1 |-> NoneVal,
   h_t_1 |-> NoneVal,
   beta_t |-> NoneVal]

\* policy 'LinUCB': the Recommender has no rnn_model attribute
NoRnn ==
  [present |-> FALSE, dim |-> 0, hidden_size |-> 0,
   params |-> [name \in ParamNames |-> Tensor(<<>>, 0, <<>>)],
   X_t_1 |-> NoneVal, h_t_1 |-> NoneVal, beta_t |-> NoneVal]

\* which values the parameters have: per tensor its seed and number of steps
ParamsVersion(rnn) ==
  [name \in ParamNames |-> <<rnn.params[name].seed, Len(rnn.params[name].steps)>>]

\* the hidden state as a term: the cell applications made since the zero vector
ZeroHidden == <<>>

\* h_t = tanh(W_ih x + b_ih + W_hh h + b_hh) under the parameters pv
Cell(pv, x, h) == Append(h, [pv |-> pv, x |-> x])

\* beta_t = W_output h_t + b_output under the parameters pv
Output(pv, h) == [pv |-> pv, h |-> h]

\* RNN.forward(feature, h0): reads the parameters, writes nothing
Forward(rnn, feature, h0) ==
  IF Len(feature) # rnn.dim
  THEN [err |-> "ValueError", h |-> ZeroHidden, beta |-> Output(ParamsVersion(rnn), ZeroHidden)]
  ELSE LET h_t_1 == IF h0.none THEN ZeroHidden ELSE h0.val
           h_t == Cell(ParamsVersion(rnn), feature, h_t_1)
       IN [err |-> "none", h |-> h_t, beta |-> Output(ParamsVersion(rnn), h_t)]

\* F.mse_loss(torch.dot(beta_t, x_t), reward)
MseLoss(beta_t, x_t, reward) == [beta |-> beta_t, x |-> x_t, y |-> reward]

\* loss.backward(); optimizer.step(): one Adam step on every parameter
OptimizerStep(params, loss) ==
  [name \in ParamNames |->
     Tensor(params[name].shape, params[name].seed, Append(params[name].steps, loss))]

\* train_per_update that only seeds the deferred state on the first call
TrainPerUpdate_seedOnly(rnn, features, reward) ==
  LET first == rnn.X_t_1.none \/ rnn.h_t_1.none
      fw == Forward(rnn, rnn.X_t_1.val, rnn.h_t_1)
  IN IF first
     THEN [err |-> "none",
           rnn |-> [rnn EXCEPT !.X_t_1 = Some(features), !.h_t_1 = Some(ZeroHidden)]]
     ELSE [err |-> "none",
           rnn |-> [rnn EXCEPT !.h_t_1 = Some(fw.h),
                               !.beta_t = Some(fw.beta),
                               !.X_t_1 = Some(features),
                               !.params = OptimizerStep(rnn.params,
                                                        MseLoss(fw.beta, features, reward))]]

\* train_per_update that applies the cell to the input of the current call
TrainPerUpdate_currentInput(rnn, features, reward) ==
  LET first == rnn.X_t_1.none \/ rnn.h_t_1.none
      h0 == IF first THEN Some(ZeroHidden) ELSE rnn.h_t_1
      fw == Forward(rnn, features, h0)
  IN [err |-> "none",
      rnn |-> [rnn EXCEPT !.h_t_1 = Some(fw.h),
                          !.beta_t = Some(fw.beta),
                          !.X_t_1 = Some(features),
                          !.params = OptimizerStep(rnn.params,
                                                   MseLoss(fw.beta, features, reward))]]

\* train_per_update whose loss dots beta_t with the stored previous input
TrainPerUpdate_lossOnLastInput(rnn, features, reward) ==
  LET first == rnn.X_t_1.none \/ rnn.h_t_1.none
      X0 == IF first THEN Some(features) ELSE rnn.X_t_1
      h0 == IF first THEN Some(ZeroHidden) ELSE rnn.h_t_1
      fw == Forward(rnn, X0.val, h0)
  IN [err |-> "none",
      rnn |-> [rnn EXCEPT !.h_t_1 = Some(fw.h),
                          !.beta_t = Some(fw.beta),
                          !.X_t_1 = Some(features),
                          !.params = OptimizerStep(rnn.params,
                                                   MseLoss(fw.beta, X0.val, reward))]]

\* RNN.train_per_update(features, reward): the new RNN and the error raised
TrainPerUpdate(rnn, features, reward) ==
  LET first == rnn.X_t_1.none \/ rnn.h_t_1.none
      X0 == IF first THEN Some(features) ELSE rnn.X_t_1
      h0 == IF first THEN Some(ZeroHidden) ELSE rnn.h_t_1
      seeded == [rnn EXCEPT !.X_t_1 = X0, !.h_t_1 = h0]
      fw == Forward(seeded, X0.val, h0)
      loss == MseLoss(fw.beta, features, reward)
  IN IF fw.err # "none"
     THEN [err |-> fw.err, rnn |-> seeded]
     ELSE [err |-> "none",
           rnn |-> [seeded EXCEPT !.h_t_1 = Some(fw.h),
                                  !.beta_t = Some(fw.beta),
                                  !.X_t_1 = Some(features),
                                  !.params = OptimizerStep(rnn.params, loss)]]

\* load_model that takes every stored array, whatever its shape
LoadModel_noShapeCheck(rnn, f) ==
  IF f.status = "absent" THEN rnn
  ELSE [rnn EXCEPT !.params =
          [name \in ParamNames |->
             IF RnnKey(name) \in DOMAIN f.data
             THEN f.data[RnnKey(name)]
             ELSE rnn.params[name]]]

\* RNN.load_model(): per tensor, the stored array when its key is in the file
\* and its shape is the tensor's; otherwise the tensor as initialized
LoadModel(rnn, f) ==
  IF f.status = "absent" THEN rnn
  ELSE [rnn EXCEPT !.params =
          [name \in ParamNames |->
             IF RnnKey(name) \in DOMAIN f.data
             THEN IF f.data[RnnKey(name)].shape = rnn.params[name].shape
                  THEN f.data[RnnKey(name)]
                  ELSE rnn.params[name]
             ELSE rnn.params[name]]]

\* --------------------------------------------------------- class Recommender
VARIABLES
  playlist,          \* self.playlist: list of MusicItem
  A,                 \* self._A: id -> d x d matrix
  b,                 \* self._b: id -> d vector
  alpha,             \* self.alpha
  l2,                \* self.l2
  policy,            \* self.policy
  discount,          \* self.discount, <<numerator, denominator>>
  last_selected_id,  \* self.last_selected_id
  rnn_model,         \* self.rnn_model (LinUCB+)
  file,              \* the snapshot file at self.storage
  last,              \* the last call and its outcome; in the server, the response of the last step
  nfeedback,         \* feedback calls made so far
  partitions,        \* the server's storage: per user id its files
  requests           \* the server's requests in flight and their responses

vars == <<playlist, A, b, alpha, l2, policy, discount, last_selected_id,
          rnn_model, file, last, nfeedback, partitions, requests>>

\* the learner used as a library: no server process, no storage directory
NoServer == <<>>

ServerOff == partitions = NoServer /\ requests = NoServer

\* Recommender.load_params against a readable file: A and b after the loop
LoadParamsA(pl, Am, f, l) ==
  [id \in DOMAIN Am \cup PlaylistIds(pl) |->
     IF id \in PlaylistIds(pl)
     THEN IF Key("A", id) \in DOMAIN f.data /\ Key("b", id) \in DOMAIN f.data
          THEN f.data[Key("A", id)]
          ELSE Eye(Len(ItemOf(pl, id).features), l)
     ELSE Am[id]]

LoadParamsB(pl, bm, f) ==
  [id \in DOMAIN bm \cup PlaylistIds(pl) |->
     IF id \in PlaylistIds(pl)
     THEN IF Key("A", id) \in DOMAIN f.data /\ Key("b", id) \in DOMAIN f.data
          THEN f.data[Key("b", id)]
          ELSE Zeros(Len(ItemOf(pl, id).features))
     ELSE bm[id]]

\* the entries save_params starts from: the existing file's when it can be
\* read, none when the file is absent or np.load raises
ExistingEntries(f) == IF f.status = "ok" THEN f.data ELSE NoData

\* the entries save_params lays over them: A_<id>, b_<id> of the playlist
PlaylistEntries(pl, Am, bm) ==
  [k \in {Key("A", id) : id \in PlaylistIds(pl)} \cup {Key("b", id) : id \in PlaylistIds(pl)} |->
     LET id == CHOOSE i \in PlaylistIds(pl) : k \in {Key("A", i), Key("b", i)}
     IN IF k = Key("A", id) THEN Am[id] ELSE bm[id]]

\* save_params that gives up, leaving the file, when it cannot read it
SaveParamsFile_abortUnreadable(pl, Am, bm, f) ==
  IF f.status = "ok" THEN NpzFile(Overlay(f.data, PlaylistEntries(pl, Am, bm))) ELSE f

\* save_params that writes the working set only, without reading the file
SaveParamsFile_overwrite(pl, Am, bm, f) == NpzFile(PlaylistEntries(pl, Am, bm))

\* Recommender.save_params: the file np.savez_compressed writes
SaveParamsFile(pl, Am, bm, f) ==
  NpzFile(Overlay(ExistingEntries(f), PlaylistEntries(pl, Am, bm)))

\* Recommender.__init__: the learner it returns, or ok = FALSE when it raises
Construct(f, pl, al, l, initialization, pol, disc) ==
  LET A0 == [id \in PlaylistIds(pl) |-> Eye(Len(ItemOf(pl, id).features), l)]
      b0 == [id \in PlaylistIds(pl) |-> Zeros(Len(ItemOf(pl, id).features))]
      loads == ~initialization /\ f.status = "ok"
      A1 == IF loads THEN LoadParamsA(pl, A0, f, l) ELSE A0
      b1 == IF loads THEN LoadParamsB(pl, b0, f) ELSE b0
      \* except FileNotFoundError: self.save_params()
      f1 == IF ~initialization /\ f.status = "absent"
            THEN SaveParamsFile(pl, A0, b0, f) ELSE f
      d == Len(pl[1].features)
  IN [ok |-> /\ ~(~initialization /\ f.status = "corrupt")
             /\ pol = "LinUCB+" => (Len(pl) > 0 /\ f1.status # "corrupt"),
      A |-> A1,
      b |-> b1,
      file |-> f1,
      rnn_model |-> IF pol = "LinUCB+" /\ Len(pl) > 0
                    THEN LoadModel(RnnInit(d, 2 * d, 1), f1)
                    ELSE NoRnn]

\* theta_a . x_a + alpha * sqrt(x_a . A^-1 x_a) [+ beta_t . x_a], for an arm
\* whose A is invertible: theta = Adj(A) b / det, A^-1 = Adj(A) / det
UndiscountedScore(it, betaDot) ==
  LET M == A[it.id]
      x_a == it.features
      det == Det(M)
      P == Dot(MatVec(Adj(M), b[it.id]), x_a)
      Q == Dot(x_a, MatVec(Adj(M), x_a))
  IN [num |-> P + betaDot * det, rad |-> alpha * alpha * Q * det, den |-> det]

\* if it.id == self.last_selected_id: pta *= self.discount
DiscountedScore(it, betaDot) ==
  IF it.id = last_selected_id
  THEN ScoreTimes(UndiscountedScore(it, betaDot), discount)
  ELSE UndiscountedScore(it, betaDot)

\* what the loop body of selection raises for one item
ItemError(it) ==
  IF Det(A[it.id]) = 0 THEN "LinAlgError"
  ELSE IF Len(it.features) # Len(A[it.id]) THEN "ValueError"
  ELSE IF policy = "LinUCB+" /\ Forward(rnn_model, it.features, rnn_model.h_t_1).err # "none"
       THEN "ValueError"
  ELSE "none"

\* the exception selection ends in: that of the first item that raises
SelectionError ==
  IF \A i \in 1..Len(playlist) : ItemError(playlist[i]) = "none" THEN "none"
  ELSE ItemError(playlist[CHOOSE i \in 1..Len(playlist) :
                   /\ ItemError(playlist[i]) # "none"
                   /\ \A j \in 1..(i - 1) : ItemError(playlist[j]) = "none"])

\* scores: [(pta, it) for it in self.playlist]
Scores(bd) ==
  [i \in 1..Len(playlist) |->
     [score |-> DiscountedScore(playlist[i], bd[playlist[i].features]), item |-> playlist[i]]]

\* scores.sort(key=lambda tup: tup[0], reverse=True): list.sort is stable, and
\* with reverse=True equal keys still keep their original order
\* an insertion that puts an element before its equals (an unstable sort)
RECURSIVE InsertDesc_unstable(_, _)
InsertDesc_unstable(sorted, e) ==
  IF sorted = <<>> THEN <<e>>
  ELSE IF ScoreCmp(Head(sorted).score, e.score) > 0
       THEN <<Head(sorted)>> \o InsertDesc_unstable(Tail(sorted), e)
       ELSE <<e>> \o sorted

RECURSIVE InsertDesc(_, _)
InsertDesc(sorted, e) ==
  IF sorted = <<>> THEN <<e>>
  ELSE IF ScoreCmp(Head(sorted).score, e.score) >= 0
       THEN <<Head(sorted)>> \o InsertDesc(Tail(sorted), e)
       ELSE <<e>> \o sorted

RECURSIVE SortDescTo(_, _)
SortDescTo(scores, k) ==
  IF k = 0 THEN <<>> ELSE InsertDesc(SortDescTo(scores, k - 1), scores[k])

SortDesc(scores) == SortDescTo(scores, Len(scores))

\* seq[:n]
SliceTo(seq, n) ==
  IF n >= 0
  THEN SubSeq(seq, 1, IF n < Len(seq) THEN n ELSE Len(seq))
  ELSE SubSeq(seq, 1, IF Len(seq) + n > 0 THEN Len(seq) + n ELSE 0)

\* top_n_items = [tup[1] for tup in scores[:n]]
TopN(sorted, n) ==
  LET cut == SliceTo(sorted, n) IN [i \in 1..Len(cut) |-> cut[i].item]

NoItem == MusicItem(None, <<>>)

Call(op, err, n, bd, item, reward, ret) ==
  [op |-> op, err |-> err, n |-> n, bd |-> bd, item |-> item, reward |-> reward, ret |-> ret]

NoBeta == [x \in {} |-> 0]

\* the values beta_t . x_a of one selection call, per feature vector of the
\* playlist: forward is a function of (x_a, h_t_1, parameters)
BetaDots ==
  IF policy = "LinUCB+"
  THEN [{playlist[i].features : i \in 1..Len(playlist)} -> BetaDotVals]
  ELSE {[x \in {playlist[i].features : i \in 1..Len(playlist)} |-> 0]}

\* selection that records its first pick as the last selected item
Selection_marks(n, bd) ==
  LET ret == IF SelectionError = "none" THEN TopN(SortDesc(Scores(bd)), n) ELSE <<>>
  IN /\ last' = Call("selection", SelectionError, n, bd, NoItem, 0, ret)
     /\ last_selected_id' = IF Len(ret) > 0 THEN ret[1].id ELSE last_selected_id
     /\ UNCHANGED <<playlist, A, b, alpha, l2, policy, discount, rnn_model, file, nfeedback,
                    partitions, requests>>

\* Recommender.selection(n)
Selection(n, bd) ==
  /\ last' = Call("selection", SelectionError, n, bd, NoItem, 0,
                  IF SelectionError = "none" THEN TopN(SortDesc(Scores(bd)), n) ELSE <<>>)
  /\ UNCHANGED <<playlist, A, b, alpha, l2, policy, discount, last_selected_id,
                 rnn_model, file, nfeedback,
                 partitions, requests>>

\* reward - theta . x for theta solved from the statistics M, v, as a
\* fraction <<numerator, denominator>>
Residual(M, v, x, reward) ==
  LET det == Det(M)
      num == reward * det - Dot(MatVec(Adj(M), v), x)
      g == Gcd(num, det)
  IN <<num \div g, det \div g>>

\* the residual taken from the statistics as the rank-1 update leaves them
ResidualReward_postUpdate(item, reward) ==
  Residual(MatAdd(A[item.id], Outer(item.features, item.features)),
           VecAdd(b[item.id], VecScale(reward, item.features)),
           item.features, reward)

\* reward_ = reward - np.dot(np.linalg.solve(A, b), x_a), before A and b change
ResidualReward(item, reward) == Residual(A[item.id], b[item.id], item.features, reward)

FeedbackTrain(item, reward) ==
  TrainPerUpdate(rnn_model, item.features, ResidualReward(item, reward))

\* what feedback raises: KeyError for an id without statistics; in LinUCB+
\* mode what the solve, the np.dot of theta with x_a and the training raise;
\* otherwise ValueError when x_a x_a^T cannot be broadcast to the shape of A
FeedbackError(item, reward) ==
  IF item.id \notin DOMAIN A THEN "KeyError"
  ELSE IF policy = "LinUCB+"
  THEN IF Det(A[item.id]) = 0 THEN "LinAlgError"
       ELSE IF Len(item.features) # Len(A[item.id]) THEN "ValueError"
       ELSE FeedbackTrain(item, reward).err
  ELSE IF ~Broadcastable(Len(item.features), Len(A[item.id])) THEN "ValueError"
  ELSE "none"

\* the rank-1 update with the wrong sign
FeedbackA_subtract(item) ==
  [A EXCEPT ![item.id] =
     MatAdd(A[item.id], Outer(VecScale(-1, item.features), item.features))]

\* feedback that leaves A as it was
FeedbackA_skip(item) == A

\* self._A[item.id] += np.outer(x_a, x_a)
FeedbackA(item) ==
  [A EXCEPT ![item.id] =
     MatAdd(A[item.id], BroadcastMat(Outer(item.features, item.features), Len(A[item.id])))]

\* the update of b applied to every arm (statistics shared between arms)
FeedbackB_shared(item, reward) ==
  [id \in DOMAIN b |-> VecAdd(b[id], VecScale(reward, item.features))]

\* self._b[item.id] += reward * x_a
FeedbackB(item, reward) ==
  [b EXCEPT ![item.id] =
     VecAdd(b[item.id], BroadcastVec(VecScale(reward, item.features), Len(b[item.id])))]

\* feedback that leaves last_selected_id as it was
FeedbackLastSelected_keep(item) == last_selected_id

\* self.last_selected_id = item.id
FeedbackLastSelected(item) == item.id

\* feedback gets as far as train_per_update (line 232): LinUCB+ mode, the arm
\* has statistics, and the solve and the np.dot of line 231 did not raise
FeedbackReachesTraining(item) ==
  /\ policy = "LinUCB+"
  /\ item.id \in DOMAIN A
  /\ Det(A[item.id]) # 0
  /\ Len(item.features) = Len(A[item.id])

\* Recommender.feedback(item, reward)
Feedback(item, reward) ==
  /\ nfeedback < MaxFeedback
  /\ nfeedback' = nfeedback + 1
  /\ last' = Call("feedback", FeedbackError(item, reward), 0, NoBeta, item, reward, <<>>)
  /\ IF FeedbackError(item, reward) = "none"
     THEN /\ rnn_model' = IF policy = "LinUCB+"
                          THEN FeedbackTrain(item, reward).rnn ELSE rnn_model
          /\ A' = FeedbackA(item)
          /\ b' = FeedbackB(item, reward)
          /\ last_selected_id' = FeedbackLastSelected(item)
     ELSE /\ rnn_model' = IF FeedbackReachesTraining(item)
                          THEN FeedbackTrain(item, reward).rnn ELSE rnn_model
          /\ UNCHANGED <<A, b, last_selected_id>>
  /\ UNCHANGED <<playlist, alpha, l2, policy, discount, file,
                 partitions, requests>>

\* Recommender.save_params()
SaveParams ==
  /\ file' = SaveParamsFile(playlist, A, b, file)
  /\ last' = Call("save_params", "none", 0, NoBeta, NoItem, 0, <<>>)
  /\ UNCHANGED <<playlist, A, b, alpha, l2, policy, discount, last_selected_id,
                 rnn_model, nfeedback,
                 partitions, requests>>

LoadParamsError ==
  IF file.status = "absent" THEN "FileNotFoundError"
  ELSE IF file.status = "corrupt" THEN "LoadError"
  ELSE "none"

\* Recommender.load_params()
LoadParams ==
  /\ last' = Call("load_params", LoadParamsError, 0, NoBeta, NoItem, 0, <<>>)
  /\ IF LoadParamsError = "none"
     THEN /\ A' = LoadParamsA(playlist, A, file, l2)
          /\ b' = LoadParamsB(playlist, b, file)
     ELSE UNCHANGED <<A, b>>
  /\ UNCHANGED <<playlist, alpha, l2, policy, discount, last_selected_id,
                 rnn_model, file, nfeedback,
                 partitions, requests>>

\* ------------------------------------------------------------ initial states
\* a playlist: MusicItems with distinct ids, in any order
Playlists ==
  {pl \in UNION {[1..k -> Items] : k \in PlaylistLens} :
     \A i, j \in 1..Len(pl) : pl[i].id = pl[j].id => i = j}

\* a snapshot left by earlier sessions with l2 = 1: five arms (3 after one
\* feedback of reward 1 on (1, 1), 4 after one of reward -1 on (0, 1), the
\* others as initialized) and the tensors an RNN(dim=2, hidden_size=4) saved
\* with save_model
SampleArms == 3..7

SampleA(id) ==
  IF id = 3 THEN << <<2, 1>>, <<1, 2>> >>
  ELSE IF id = 4 THEN << <<1, 0>>, <<0, 2>> >>
  ELSE Eye(2, 1)

SampleB(id) == IF id = 3 THEN <<1, 1>> ELSE IF id = 4 THEN <<0, -1>> ELSE Zeros(2)

SampleData ==
  [k \in {Key("A", id) : id \in SampleArms} \cup {Key("b", id) : id \in SampleArms}
         \cup {RnnKey(name) : name \in ParamNames} |->
     IF \E id \in SampleArms : k = Key("A", id)
     THEN SampleA(CHOOSE id \in SampleArms : k = Key("A", id))
     ELSE IF \E id \in SampleArms : k = Key("b", id)
     THEN SampleB(CHOOSE id \in SampleArms : k = Key("b", id))
     ELSE Tensor(ParamShape(CHOOSE name \in ParamNames : k = RnnKey(name), 2, 4), 0, <<>>)]

InitFiles == {AbsentFile, CorruptFile, NpzFile(SampleData)}

\* the learners Recommender(storage, playlist, alpha, l2, initialization,
\* policy, discount) returns over these arguments
InitOver(files, playlists, alphas, l2s, initializations, policies, discounts) ==
  \E f \in files, pl \in playlists, al \in alphas, l \in l2s,
     initialization \in initializations, pol \in policies, disc \in discounts :
    LET new == Construct(f, pl, al, l, initialization, pol, disc)
    IN /\ new.ok
       /\ playlist = pl
       /\ A = new.A
       /\ b = new.b
       /\ alpha = al
       /\ l2 = l
       /\ policy = pol
       /\ discount = disc
       /\ last_selected_id = None
       /\ rnn_model = new.rnn_model
       /\ file = new.file
       /\ last = Call("__init__", "none", 0, NoBeta, NoItem, 0, <<>>)
       /\ nfeedback = 0
       /\ ServerOff

\* alpha and discount as the caller leaves them (alpha = 1.0; the default
\* discount 0.7 as 1/2), every snapshot file, both policies
Init == InitOver(InitFiles, Playlists, {1}, L2Set, BOOLEAN, PolicySet, {<<1, 2>>})

\* initialization = True over the snapshot of the earlier sessions (only the
\* RNN reads it), every alpha, discount and policy
InitRank == InitOver({NpzFile(SampleData)}, Playlists, AlphaSet, {1}, {TRUE}, PolicySet, DiscountSet)

\* feedback is given on MusicItems whose id is in the playlist
PlaylistFeedbackItems == {item \in FeedbackItems : item.id \in PlaylistIds(playlist)}

PlaylistItems == {item \in Items : item.id \in PlaylistIds(playlist)}

\* the learner under feedback, save and load calls
Next ==
  \/ \E item \in PlaylistFeedbackItems, reward \in RewardSet : Feedback(item, reward)
  \/ SaveParams
  \/ LoadParams

Spec == Init /\ [][Next]_vars

\* the learner under selection and feedback calls
NextRank ==
  \/ \E n \in NSet, bd \in BetaDots : Selection(n, bd)
  \/ \E item \in PlaylistItems, reward \in RewardSet : Feedback(item, reward)

SpecRank == InitRank /\ [][NextRank]_vars

\* ------------------------------------------- construction as an operation
\* what Recommender.__init__ raises: load_params on an unreadable file (only
\* FileNotFoundError is caught), self.playlist[0] on an empty playlist in
\* LinUCB+ mode, load_model on an unreadable file
ConstructError(f, pl, initialization, pol) ==
  IF ~initialization /\ f.status = "corrupt" THEN "LoadError"
  ELSE IF pol = "LinUCB+" /\ Len(pl) = 0 THEN "IndexError"
  ELSE IF pol = "LinUCB+" /\ f.status = "corrupt" THEN "LoadError"
  ELSE "none"

\* the call record of a constructor call, with its arguments
NewCall(err, args) ==
  [op |-> "__init__", err |-> err, n |-> 0, bd |-> NoBeta, item |-> NoItem,
   reward |-> 0, ret |-> <<>>, args |-> args]

\* a learner exists: the constructor returned
Constructed == last.op # "start" /\ ~(last.op = "__init__" /\ last.err # "none")

\* Recommender(storage, playlist=pl, l2=l, initialization, policy=pol), alpha
\* and discount as the caller leaves them
New(pl, l, initialization, pol) ==
  LET new == Construct(file, pl, 1, l, initialization, pol, <<1, 2>>)
      err == ConstructError(file, pl, initialization, pol)
  IN /\ last.op = "start"
     /\ last' = NewCall(err, [storage |-> file.status, playlist |-> pl, l2 |-> l,
                              initialization |-> initialization, policy |-> pol])
     /\ file' = new.file
     /\ IF err = "none"
        THEN /\ playlist' = pl
             /\ A' = new.A
             /\ b' = new.b
             /\ l2' = l
             /\ policy' = pol
             /\ rnn_model' = new.rnn_model
        ELSE UNCHANGED <<playlist, A, b, l2, policy, rnn_model>>
     /\ UNCHANGED <<alpha, discount, last_selected_id, nfeedback,
                    partitions, requests>>

\* the items feedback is called with: one per id (id 3 is in no playlist), and
\* for id 1 two MusicItems whose features were reloaded with another length
LifeFeedbackItems == Items \cup {MusicItem(1, <<2>>), MusicItem(1, <<1, 0, 0>>)}

LifePlaylists ==
  {<<>>, <<MusicItem(1, FeaturesOf(1))>>,
   <<MusicItem(1, FeaturesOf(1)), MusicItem(2, FeaturesOf(2))>>}

\* a snapshot written for other feature files: arm 1 with statistics of
\* dimension 3, arm 2 with its A but without its b
MixedData ==
  [k \in {"A_1", "b_1", "A_2"} |->
     IF k = "A_1" THEN Eye(3, 1)
     ELSE IF k = "b_1" THEN Zeros(3)
     ELSE << <<1, 0>>, <<0, 2>> >>]

LifeFiles == {AbsentFile, CorruptFile, NpzFile(MixedData)}

\* the process before it constructs its learner: only the file exists
InitLife ==
  \E f \in LifeFiles :
    /\ file = f
    /\ playlist = <<>>
    /\ A = <<>>
    /\ b = <<>>
    /\ alpha = 1
    /\ l2 = 1
    /\ policy = "LinUCB"
    /\ discount = <<1, 2>>
    /\ last_selected_id = None
    /\ rnn_model = NoRnn
    /\ last = Call("start", "none", 0, NoBeta, NoItem, 0, <<>>)
    /\ nfeedback = 0
    /\ ServerOff

\* the constructor, then any calls on the learner it returned
NextLife ==
  \/ \E pl \in LifePlaylists, l \in L2Set, initialization \in BOOLEAN, pol \in PolicySet :
       New(pl, l, initialization, pol)
  \/ Constructed /\ \E item \in LifeFeedbackItems, reward \in RewardSet : Feedback(item, reward)
  \/ Constructed /\ \E bd \in BetaDots : Selection(2, bd)
  \/ Constructed /\ SaveParams
  \/ Constructed /\ LoadParams

SpecLife == InitLife /\ [][NextLife]_vars

\* -------------------------------------------------------- the RNN on its own
\* An RNN(dim=2, storage, hidden_size) object used directly, as test.py does:
\* forward, train_per_update, save_model and load_model calls on it.
RnnInputs == {<<1, 0>>, <<0, 1>>}

RnnRewards == {1}

\* forward is also called with an input of the wrong dimension
ForwardInputs == RnnInputs \cup {<<1, 0, 0>>}

HiddenSizes == {3, 4}

\* the h0 a caller passes to forward: None, the stored h_t_1, or a hidden
\* state of its own
ForwardHiddens ==
  {NoneVal, rnn_model.h_t_1, Some(Cell(ParamsVersion(rnn_model), <<1, 1>>, ZeroHidden))}

\* the entries save_model lays over the existing ones: rnn_<name> per tensor
ModelEntries(rnn) ==
  [k \in {RnnKey(name) : name \in ParamNames} |->
     rnn.params[CHOOSE name \in ParamNames : k = RnnKey(name)]]

\* RNN.save_model: the file np.savez_compressed writes
SaveModelFile(rnn, f) == NpzFile(Overlay(ExistingEntries(f), ModelEntries(rnn)))

\* forward that keeps the hidden state it computed
RnnForward_storesHidden(feature, h0) ==
  LET fw == Forward(rnn_model, feature, h0)
  IN /\ last' = [Call("forward", fw.err, 0, NoBeta, MusicItem(None, feature), 0,
                      IF fw.err = "none" THEN <<fw.h, fw.beta>> ELSE <<>>)
                   EXCEPT !.bd = h0]
     /\ rnn_model' = IF fw.err = "none"
                      THEN [rnn_model EXCEPT !.h_t_1 = Some(fw.h)] ELSE rnn_model
     /\ UNCHANGED <<playlist, A, b, alpha, l2, policy, discount, last_selected_id,
                    file, nfeedback,
                    partitions, requests>>

\* rnn.forward(feature, h0): returns (h_t, beta_t)
RnnForward(feature, h0) ==
  LET fw == Forward(rnn_model, feature, h0)
  IN /\ last' = [Call("forward", fw.err, 0, NoBeta, MusicItem(None, feature), 0,
                      IF fw.err = "none" THEN <<fw.h, fw.beta>> ELSE <<>>)
                   EXCEPT !.bd = h0]
     /\ UNCHANGED <<playlist, A, b, alpha, l2, policy, discount, last_selected_id,
                    rnn_model, file, nfeedback,
                    partitions, requests>>

\* rnn.train_per_update(features, reward)
RnnTrain(features, reward) ==
  LET tr == TrainPerUpdate(rnn_model, features, <<reward, 1>>)
  IN /\ nfeedback < MaxFeedback
     /\ nfeedback' = nfeedback + 1
     /\ last' = Call("train_per_update", tr.err, 0, NoBeta, MusicItem(None, features),
                     reward, <<>>)
     /\ rnn_model' = tr.rnn
     /\ UNCHANGED <<playlist, A, b, alpha, l2, policy, discount, last_selected_id, file,
                    partitions, requests>>

\* rnn.save_model()
RnnSaveModel ==
  /\ file' = SaveModelFile(rnn_model, file)
  /\ last' = Call("save_model", "none", 0, NoBeta, NoItem, 0, <<>>)
  /\ UNCHANGED <<playlist, A, b, alpha, l2, policy, discount, last_selected_id,
                 rnn_model, nfeedback,
                 partitions, requests>>

\* rnn.load_model(): np.load raises on an unreadable file
RnnLoadModel ==
  /\ last' = Call("load_model", IF file.status = "corrupt" THEN "LoadError" ELSE "none",
                  0, NoBeta, NoItem, 0, <<>>)
  /\ rnn_model' = IF file.status = "corrupt" THEN rnn_model ELSE LoadModel(rnn_model, file)
  /\ UNCHANGED <<playlist, A, b, alpha, l2, policy, discount, last_selected_id,
                 file, nfeedback,
                 partitions, requests>>

\* the snapshot of the earlier sessions without the array of W_hh
PartialData == [k \in DOMAIN SampleData \ {RnnKey("W_hh")} |-> SampleData[k]]

RnnFiles == {AbsentFile, CorruptFile, NpzFile(SampleData), NpzFile(PartialData)}

\* RNN(dim=2, storage=path, hidden_size=hs): no Recommender around it
InitRnn ==
  \E f \in RnnFiles, hs \in HiddenSizes :
    /\ rnn_model = RnnInit(2, hs, 1)
    /\ file = f
    /\ playlist = <<>>
    /\ A = <<>>
    /\ b = <<>>
    /\ alpha = 1
    /\ l2 = 1
    /\ policy = "LinUCB+"
    /\ discount = <<1, 2>>
    /\ last_selected_id = None
    /\ last = Call("RNN.__init__", "none", 0, NoBeta, NoItem, 0, <<>>)
    /\ nfeedback = 0
    /\ ServerOff

NextRnn ==
  \/ \E feature \in ForwardInputs, h0 \in ForwardHiddens : RnnForward(feature, h0)
  \/ \E features \in RnnInputs, reward \in RnnRewards : RnnTrain(features, reward)
  \/ RnnSaveModel
  \/ RnnLoadModel

SpecRnn == InitRnn /\ [][NextRnn]_vars

\* ------------------------------------------- add_item, remove_item, reopening
\* The learner with its lifecycle operations.  In this specification rewards
\* and the vectors b are held in hundredths, so that the seed reward 1e-2 of
\* add_item is the integer 1; feedback is linear in (reward, b), so it reads
\* the same in any unit.
\* self.feedback(item, 1e-2), in hundredths
SeedReward == 1

\* self.feedback(item, -5), in hundredths
RemoveReward == -500

\* the reward 1.0 of the callers' feedback, in hundredths
ItemRewards == {100}

\* the learner object as a value
Learner(pl, Am, bm, pol, rnn, lsi) ==
  [playlist |-> pl, A |-> Am, b |-> bm, policy |-> pol, rnn_model |-> rnn,
   last_selected_id |-> lsi]

Self == Learner(playlist, A, b, policy, rnn_model, last_selected_id)

\* Recommender.feedback(item, reward) on the learner rec: the exception it
\* ends in and the learner it leaves
FeedbackOn(rec, item, reward) ==
  LET x_a == item.features
      known == item.id \in DOMAIN rec.A
      M == rec.A[item.id]
      v == rec.b[item.id]
      plus == rec.policy = "LinUCB+"
      reaches == plus /\ known /\ Det(M) # 0 /\ Len(x_a) = Len(M)
      train == TrainPerUpdate(rec.rnn_model, x_a, Residual(M, v, x_a, reward))
      err == IF ~known THEN "KeyError"
             ELSE IF plus
             THEN IF Det(M) = 0 THEN "LinAlgError"
                  ELSE IF Len(x_a) # Len(M) THEN "ValueError"
                  ELSE train.err
             ELSE IF ~Broadcastable(Len(x_a), Len(M)) THEN "ValueError"
             ELSE "none"
  IN [err |-> err,
      rec |-> IF err = "none"
              THEN [rec EXCEPT
                      !.rnn_model = IF plus THEN train.rnn ELSE @,
                      !.A = [@ EXCEPT ![item.id] =
                               MatAdd(M, BroadcastMat(Outer(x_a, x_a), Len(M)))],
                      !.b = [@ EXCEPT ![item.id] =
                               VecAdd(v, BroadcastVec(VecScale(reward, x_a), Len(v)))],
                      !.last_selected_id = item.id]
              ELSE [rec EXCEPT !.rnn_model = IF reaches THEN train.rnn ELSE @]]

\* self.playlist.remove(item): the list without its first occurrence of item
RECURSIVE ListRemove(_, _)
ListRemove(pl, item) ==
  IF pl = <<>> THEN <<>>
  ELSE IF Head(pl) = item THEN Tail(pl)
  ELSE <<Head(pl)>> \o ListRemove(Tail(pl), item)

\* add_item without its first save: the reload takes the arms from the file
\* as the last save left it
AddItem_noSave(item) ==
  LET pl1 == Append(playlist, item)
      loads == file.status = "ok"
      A1 == IF loads THEN LoadParamsA(pl1, A, file, l2) ELSE A
      b1 == IF loads THEN LoadParamsB(pl1, b, file) ELSE b
      fb == FeedbackOn(Learner(pl1, A1, b1, policy, rnn_model, last_selected_id),
                       item, SeedReward)
      err == IF loads THEN fb.err ELSE LoadParamsError
  IN /\ nfeedback < MaxFeedback
     /\ nfeedback' = nfeedback + 1
     /\ last' = Call("add_item", err, 0, NoBeta, item, SeedReward, <<>>)
     /\ playlist' = pl1
     /\ A' = IF loads THEN fb.rec.A ELSE A
     /\ b' = IF loads THEN fb.rec.b ELSE b
     /\ rnn_model' = IF loads THEN fb.rec.rnn_model ELSE rnn_model
     /\ last_selected_id' = IF loads THEN fb.rec.last_selected_id ELSE last_selected_id
     /\ UNCHANGED <<alpha, l2, policy, discount, file,
                    partitions, requests>>

\* Recommender.add_item(item): save_params, append, load_params, then one
\* feedback with the seed reward
AddItem(item) ==
  LET f1 == SaveParamsFile(playlist, A, b, file)
      pl1 == Append(playlist, item)
      A1 == LoadParamsA(pl1, A, f1, l2)
      b1 == LoadParamsB(pl1, b, f1)
      fb == FeedbackOn(Learner(pl1, A1, b1, policy, rnn_model, last_selected_id),
                       item, SeedReward)
  IN /\ nfeedback < MaxFeedback
     /\ nfeedback' = nfeedback + 1
     /\ last' = Call("add_item", fb.err, 0, NoBeta, item, SeedReward, <<>>)
     /\ file' = f1
     /\ playlist' = pl1
     /\ A' = fb.rec.A
     /\ b' = fb.rec.b
     /\ rnn_model' = fb.rec.rnn_model
     /\ last_selected_id' = fb.rec.last_selected_id
     /\ UNCHANGED <<alpha, l2, policy, discount,
                    partitions, requests>>

\* Recommender.remove_item(item): one feedback with the penalty, save_params,
\* playlist.remove, load_params (which reloads the arms left in the playlist
\* and deletes nothing from self._A and self._b)
RemoveItem(item) ==
  LET fb == FeedbackOn(Self, item, RemoveReward)
      f1 == SaveParamsFile(playlist, fb.rec.A, fb.rec.b, file)
      pl1 == ListRemove(playlist, item)
  IN /\ nfeedback < MaxFeedback
     /\ nfeedback' = nfeedback + 1
     /\ last' = Call("remove_item", fb.err, 0, NoBeta, item, RemoveReward, <<>>)
     /\ rnn_model' = fb.rec.rnn_model
     /\ IF fb.err = "none"
        THEN /\ file' = f1
             /\ playlist' = pl1
             /\ A' = LoadParamsA(pl1, fb.rec.A, f1, l2)
             /\ b' = LoadParamsB(pl1, fb.rec.b, f1)
             /\ last_selected_id' = fb.rec.last_selected_id
        ELSE UNCHANGED <<file, playlist, A, b, last_selected_id>>
     /\ UNCHANGED <<alpha, l2, policy, discount,
                    partitions, requests>>

\* a later learner over the same snapshot and working set, constructed the
\* way the server constructs one per request: Recommender(storage=path,
\* playlist=..., initialization=False, policy=policy), l2 as its default 1.0
Reopen ==
  LET new == Construct(file, playlist, 1, 1, FALSE, policy, <<1, 2>>)
      err == ConstructError(file, playlist, FALSE, policy)
  IN /\ last' = NewCall(err, [storage |-> file.status, playlist |-> playlist, l2 |-> 1,
                              initialization |-> FALSE, policy |-> policy])
     /\ file' = new.file
     /\ IF err = "none"
        THEN /\ A' = new.A
             /\ b' = new.b
             /\ l2' = 1
             /\ rnn_model' = new.rnn_model
             /\ last_selected_id' = None
        ELSE UNCHANGED <<A, b, l2, rnn_model, last_selected_id>>
     /\ UNCHANGED <<playlist, alpha, policy, discount, nfeedback,
                    partitions, requests>>

\* the items a caller adds: MusicItems whose id is not in the playlist
NewItems == {item \in Items : item.id \notin PlaylistIds(playlist)}

InitItems == InitOver(InitFiles, Playlists, {1}, L2Set, BOOLEAN, PolicySet, {<<1, 2>>})

NextItems ==
  \/ \E item \in NewItems : AddItem(item)
  \/ \E item \in Range(playlist) : RemoveItem(item)
  \/ \E item \in PlaylistItems, reward \in ItemRewards : Feedback(item, reward)
  \/ SaveParams
  \/ Reopen

SpecItems == InitItems /\ [][NextItems]_vars

\* ------------------------------------------------- feedback on its own
\* the learner under feedback calls only, for every alpha and l2
InitBonus ==
  InitOver({NpzFile(SampleData)}, Playlists, AlphaSet, L2Set, {TRUE}, PolicySet, {<<1, 2>>})

NextBonus ==
  \E item \in PlaylistFeedbackItems, reward \in RewardSet : Feedback(item, reward)

SpecBonus == InitBonus /\ [][NextBonus]_vars

\* ------------------------------------------------------------- the server
\* M_server/server/app_new.py: the routes /api/recommend/feedback and
\* /api/recommend/query over the per-user storage.  Each request builds its
\* own Recommender over the user's snapshot (build_recommender), and FastAPI
\* runs the handlers (plain def) in a thread pool, so two requests run
\* concurrently: a request is a sequence of steps, one per access to a file
\* another request may write (the snapshot and the feedback log).  The
\* catalog songs.json and the feature files are written by uploads only.
\* Recommender and MusicItem are those of Recommender.py (app_new.py imports
\* them as python_interface.Recommend_new); the RNN of Recommender.py has no
\* load_model_from_pretrained, so _load_pretrained_rnn_if_needed changes
\* nothing.  A response carries the ranked song names; their scores are
\* recomputed by compute_score from the same learner and are left out.
\* body.get("user_id"): "" stands for a body without user_id; the server
\* takes any text the client sends
UserIds == {"", "u", ".."}

\* a directory under STORAGE_DIR, as the file system resolves the path
RECURSIVE Resolve(_)
Resolve(path) ==
  IF path = <<>> THEN <<>>
  ELSE LET dir == Resolve(SubSeq(path, 1, Len(path) - 1))
       IN IF path[Len(path)] = ".."
          THEN (IF dir = <<>> THEN <<>> ELSE SubSeq(dir, 1, Len(dir) - 1))
          ELSE Append(dir, path[Len(path)])

\* get_user_paths: the directory holding the snapshot, the catalog and the
\* feedback log of a request: STORAGE_DIR itself without user_id,
\* STORAGE_DIR / "users" / user_id with one
GetUserPaths(user_id) ==
  IF user_id = "" THEN <<>> ELSE Resolve(<<"users", user_id>>)

\* the directories that hold a partition
Dirs == {<<>>, <<"users", "u">>}

\* the request slots of the thread pool
Slots == {1, 2}

\* Recommender's defaults, which build_recommender leaves alone
DefaultAlpha == 1

DefaultL2 == 1

\* a feature file that does not exist
NoVector == <<>>

\* the files of one user: the directories get_user_paths creates, songs.json
\* (song names in insertion order), the feature file of each song,
\* recommender_params.npz and feedback_log.json
Storage(dirs, songs, features, params, log) ==
  [dirs |-> dirs, songs |-> songs, features |-> features, params |-> params, log |-> log]

\* a JSON value of the body: absent (None), a number, or text that is not a number
NoValue == [kind |-> "none", val |-> 0]

Number(v) == [kind |-> "number", val |-> v]

BadText == [kind |-> "text", val |-> 0]

Body(user_id, song_name, reward, candidates, pol, pl, exclude_playlist, n) ==
  [user_id |-> user_id, song_name |-> song_name, reward |-> reward,
   candidates |-> candidates, policy |-> pol, playlist |-> pl,
   exclude_playlist |-> exclude_playlist, n |-> n]

NoBody == Body("", None, NoValue, NoneVal, "LinUCB", <<>>, TRUE, 0)

NoLearner == Learner(<<>>, <<>>, <<>>, "LinUCB", NoRnn, None)

\* a request: where its handler stands (pc), its locals, and its response
Request(pc, kind, user_id, body, rec, save_dict, log, overlapped, status, error, recs) ==
  [pc |-> pc, kind |-> kind, user_id |-> user_id, body |-> body, rec |-> rec,
   save_dict |-> save_dict, log |-> log, overlapped |-> overlapped,
   status |-> status, error |-> error, recommendations |-> recs]

Idle == Request("idle", "none", "", NoBody, NoLearner, NoData, <<>>, FALSE, 0, "", <<>>)

\* the handler returned: the response (status code, error text, recommendations)
Response(kind, user_id, status, error, recs) ==
  Request("done", kind, user_id, NoBody, NoLearner, NoData, <<>>, FALSE, status, error, recs)

\* the response sent to the client
Reply(op, user_id, status, error, recs) ==
  [op |-> op, user_id |-> user_id, status |-> status, error |-> error,
   recommendations |-> recs]

NoReply == Reply("start", "", 0, "", <<>>)

\* the slot of a handler after its step: free again once it returned
Settle(r) == IF r.pc = "done" THEN Idle ELSE r

\* the response that step sent, if it sent one
Replied(r) ==
  IF r.pc = "done"
  THEN Reply(r.kind, r.user_id, r.status, r.error, r.recommendations)
  ELSE NoReply

\* candidate_names = body.get("candidates") or list(songs.keys())
CandidateNames(body, songs) ==
  IF body.candidates.none \/ body.candidates.val = <<>> THEN songs ELSE body.candidates.val

\* [name for name in candidate_names if name not in playlist_names]
RECURSIVE Without(_, _)
Without(names, excluded) ==
  IF names = <<>> THEN <<>>
  ELSE IF Head(names) \in Range(excluded) THEN Without(Tail(names), excluded)
  ELSE <<Head(names)>> \o Without(Tail(names), excluded)

\* build_recommender's loop: the MusicItems of the candidates that are in the
\* catalog and whose feature file exists, in candidate order
RECURSIVE BuildItems(_, _, _)
BuildItems(part, names, k) ==
  IF k = 0 THEN <<>>
  ELSE LET items == BuildItems(part, names, k - 1)
           song_name == names[k]
       IN IF /\ song_name \in Range(part.songs)
             /\ part.features[song_name] # NoVector
             /\ song_name \notin PlaylistIds(items)
          THEN Append(items, MusicItem(song_name, part.features[song_name]))
          ELSE items

\* Recommender.__init__ up to load_params: A = l2*I, b = 0 for the playlist
FreshLearner(pl, pol) ==
  Learner(pl,
          [id \in PlaylistIds(pl) |-> Eye(Len(ItemOf(pl, id).features), DefaultL2)],
          [id \in PlaylistIds(pl) |-> Zeros(Len(ItemOf(pl, id).features))],
          pol, NoRnn, None)

\* load_params against the readable snapshot f
LoadedLearner(pl, pol, f) ==
  LET new == FreshLearner(pl, pol)
  IN [new EXCEPT !.A = LoadParamsA(pl, new.A, f, DefaultL2),
                 !.b = LoadParamsB(pl, new.b, f)]

\* the end of Recommender.__init__: in LinUCB+ mode RNN(dim=d, storage,
\* hidden_size=2*d) and its load_model() from the snapshot f
WithRnn(rec, f) ==
  IF rec.policy = "LinUCB+"
  THEN LET d == Len(rec.playlist[1].features)
       IN [rec EXCEPT !.rnn_model = LoadModel(RnnInit(d, 2 * d, 1), f)]
  ELSE rec

\* Recommender.selection on the learner rec: scores, errors, ranking
ScoreOn(rec, it, betaDot) ==
  LET M == rec.A[it.id]
      x_a == it.features
      det == Det(M)
      P == Dot(MatVec(Adj(M), rec.b[it.id]), x_a)
      Q == Dot(x_a, MatVec(Adj(M), x_a))
      pta == [num |-> P + betaDot * det, rad |-> DefaultAlpha * DefaultAlpha * Q * det,
              den |-> det]
  IN IF it.id = rec.last_selected_id THEN ScoreTimes(pta, <<1, 2>>) ELSE pta

SelectionErrorOn(rec) ==
  IF \E i \in 1..Len(rec.playlist) : Det(rec.A[rec.playlist[i].id]) = 0
  THEN "LinAlgError"
  ELSE IF \E i \in 1..Len(rec.playlist) :
            Len(rec.playlist[i].features) # Len(rec.A[rec.playlist[i].id])
  THEN "ValueError"
  ELSE "none"

BetaDotsOn(rec) ==
  IF rec.policy = "LinUCB+"
  THEN [{rec.playlist[i].features : i \in 1..Len(rec.playlist)} -> BetaDotVals]
  ELSE {[x \in {rec.playlist[i].features : i \in 1..Len(rec.playlist)} |-> 0]}

SelectionOn(rec, n, bd) ==
  TopN(SortDesc([i \in 1..Len(rec.playlist) |->
                   [score |-> ScoreOn(rec, rec.playlist[i], bd[rec.playlist[i].features]),
                    item |-> rec.playlist[i]]]), n)

\* the thread pool hands a request to its first free worker
FreeSlot(s) ==
  /\ requests[s].pc = "idle"
  /\ \A t \in Slots : t < s => requests[t].pc # "idle"

\* another request is writing this user's snapshot (np.savez_compressed
\* truncates the file and writes it in place)
MidWrite(s, p) ==
  \E t \in Slots \ {s} :
    GetUserPaths(requests[t].user_id) = p /\ requests[t].pc \in {"init_write", "write"}

\* what np.load finds at the snapshot path: the file, or an unreadable one
\* while another request is writing it
SeenParams(s, p) ==
  {partitions[p].params} \cup (IF MidWrite(s, p) THEN {CorruptFile} ELSE {})

\* what a write leaves at the path: the archive, or an unreadable file when
\* it overlaps another request's write
WrittenParams(s, p, new) ==
  {new} \cup (IF MidWrite(s, p) \/ requests[s].overlapped THEN {CorruptFile} ELSE {})

\* the requests after s wrote the snapshot in p: the other writers of it overlap
AfterWrite(s, p, r) ==
  [t \in Slots |->
     IF t = s THEN Settle(r)
     ELSE IF GetUserPaths(requests[t].user_id) = p /\ requests[t].pc \in {"init_write", "write"}
     THEN [requests[t] EXCEPT !.overlapped = TRUE]
     ELSE requests[t]]

\* what json.loads finds in the feedback log: the list, or nothing readable
\* (log = []) while another request is writing it
SeenLog(s, p) ==
  {partitions[p].log} \cup
  (IF \E t \in Slots \ {s} :
        GetUserPaths(requests[t].user_id) = p /\ requests[t].pc = "log_write"
   THEN {<<>>} ELSE {})

\* the handlers after build_recommender returned the learner rec.
\* recommend_feedback: items.get(song_name), rec.feedback(item, reward);
\* recommend_query: rec.selection(n) and the response
AfterBuild(r, rec, bd) ==
  IF r.kind = "recommend_feedback"
  THEN IF r.body.song_name \notin PlaylistIds(rec.playlist)
       THEN Response(r.kind, r.user_id, 400, "unable to load features", <<>>)
       ELSE LET fb == FeedbackOn(rec, ItemOf(rec.playlist, r.body.song_name),
                                 r.body.reward.val)
            IN IF fb.err # "none"
               THEN Response(r.kind, r.user_id, 500, fb.err, <<>>)
               ELSE [r EXCEPT !.pc = "save", !.rec = fb.rec]
  ELSE IF SelectionErrorOn(rec) # "none"
       THEN Response(r.kind, r.user_id, 500, SelectionErrorOn(rec), <<>>)
       ELSE LET top == SelectionOn(rec, r.body.n, bd)
            IN Response(r.kind, r.user_id, 200, "",
                        [i \in 1..Len(top) |-> top[i].id])

\* build_recommender from the candidate names on: the items, then
\* Recommender(storage=param_path, playlist, initialization=False, policy)
\* up to its load_params, which finds the snapshot seen
Build(r, part, names, seen, bd) ==
  LET items == BuildItems(part, names, Len(names))
  IN IF items = <<>>
     THEN Response(r.kind, r.user_id, 400, "no candidates with features available", <<>>)
     ELSE IF seen.status = "absent"
     THEN [r EXCEPT !.pc = "init_save", !.rec = FreshLearner(items, r.body.policy)]
     ELSE IF seen.status = "corrupt"
     THEN Response(r.kind, r.user_id, 500, "LoadError", <<>>)
     ELSE AfterBuild(r, WithRnn(LoadedLearner(items, r.body.policy, seen), seen), bd)

\* a save in which the existing entries win over the learner's
SavedEntries_keepExisting(save_dict, rec) ==
  Overlay(PlaylistEntries(rec.playlist, rec.A, rec.b), save_dict)

\* a save that writes the playlist's entries only
SavedEntries_playlistOnly(save_dict, rec) ==
  PlaylistEntries(rec.playlist, rec.A, rec.b)

\* the saved archive: the playlist's A and b laid over the existing entries
SavedEntries(save_dict, rec) ==
  Overlay(save_dict, PlaylistEntries(rec.playlist, rec.A, rec.b))

\* a get_user_paths that makes the directories anew
MakeDirs_wipes(p) ==
  [partitions EXCEPT ![p] = Storage(TRUE, @.songs, @.features, AbsentFile, <<>>)]

\* get_user_paths(user_id): mkdir of the directories (exist_ok)
MakeDirs(p) == [partitions EXCEPT ![p].dirs = TRUE]

\* POST /api/recommend/feedback: the checks of the body, load_songs, and
\* build_recommender up to the constructor's load_params
RecommendFeedback(s, body) ==
  LET u == body.user_id
      p == GetUserPaths(u)
      r == Request("start", "recommend_feedback", u, body, NoLearner, NoData, <<>>, FALSE,
                   0, "", <<>>)
      part == partitions[p]
      reject(status, error) ==
        /\ requests' = requests
        /\ last' = Reply("recommend_feedback", u, status, error, <<>>)
      names == IF body.song_name \in Range(CandidateNames(body, part.songs))
               THEN CandidateNames(body, part.songs)
               ELSE Append(CandidateNames(body, part.songs), body.song_name)
  IN /\ FreeSlot(s)
     /\ nfeedback < MaxFeedback
     /\ IF body.song_name = None \/ body.reward.kind = "none"
        THEN /\ reject(400, "song_name and reward are required")
             /\ UNCHANGED <<partitions, nfeedback>>
        ELSE IF body.reward.kind # "number"
        THEN /\ reject(400, "invalid reward")
             /\ UNCHANGED <<partitions, nfeedback>>
        ELSE IF body.song_name \notin Range(part.songs)
        THEN /\ reject(404, "song_name not found")
             /\ partitions' = MakeDirs(p)
             /\ UNCHANGED nfeedback
        ELSE /\ \E seen \in SeenParams(s, p) :
                  LET built == Build(r, part, names, seen, NoBeta)
                  IN /\ requests' = [requests EXCEPT ![s] = Settle(built)]
                     /\ last' = Replied(built)
             /\ partitions' = MakeDirs(p)
             /\ nfeedback' = nfeedback + 1
     /\ UNCHANGED <<playlist, A, b, alpha, l2, policy, discount, last_selected_id,
                    rnn_model, file>>

\* POST /api/recommend/query: load_songs, the candidate filter, and
\* build_recommender up to the constructor's load_params; when the snapshot
\* is there, also rec.selection(n) and the response
RecommendQuery(s, body) ==
  LET u == body.user_id
      p == GetUserPaths(u)
      r == Request("start", "recommend_query", u, body, NoLearner, NoData, <<>>, FALSE,
                   0, "", <<>>)
      part == partitions[p]
      names == IF body.exclude_playlist
               THEN Without(CandidateNames(body, part.songs), body.playlist)
               ELSE CandidateNames(body, part.songs)
  IN /\ FreeSlot(s)
     /\ partitions' = MakeDirs(p)
     /\ IF names = <<>>
        THEN /\ requests' = requests
             /\ last' = Reply("recommend_query", u, 400, "no candidates provided", <<>>)
        ELSE \E seen \in SeenParams(s, p) :
               \E bd \in BetaDotsOn(FreshLearner(BuildItems(part, names, Len(names)),
                                                 body.policy)) :
                 LET built == Build(r, part, names, seen, bd)
                 IN /\ requests' = [requests EXCEPT ![s] = Settle(built)]
                    /\ last' = Replied(built)
     /\ UNCHANGED <<playlist, A, b, alpha, l2, policy, discount, last_selected_id,
                    rnn_model, file, nfeedback>>

\* the constructor's save_params after FileNotFoundError, first half:
\* os.path.exists(path) and np.load of what is there by now
InitSaveRead(s) ==
  /\ requests[s].pc = "init_save"
  /\ \E seen \in SeenParams(s, GetUserPaths(requests[s].user_id)) :
       requests' = [requests EXCEPT ![s].pc = "init_write",
                                    ![s].save_dict = ExistingEntries(seen)]
  /\ last' = NoReply
  /\ UNCHANGED <<playlist, A, b, alpha, l2, policy, discount, last_selected_id,
                 rnn_model, file, nfeedback, partitions>>

\* second half: np.savez_compressed; then the rest of the constructor
\* (the RNN and its load_model) and of the handler up to its next file access
InitSaveWrite(s) ==
  LET r == requests[s]
      u == r.user_id
      p == GetUserPaths(u)
      new == NpzFile(SavedEntries(r.save_dict, r.rec))
  IN /\ r.pc = "init_write"
     /\ \E written \in WrittenParams(s, p, new) :
          /\ partitions' = [partitions EXCEPT ![p].params = written]
          /\ \E bd \in BetaDotsOn(r.rec) :
               LET built == IF r.rec.policy = "LinUCB+" /\ written.status = "corrupt"
                            THEN Response(r.kind, u, 500, "LoadError", <<>>)
                            ELSE AfterBuild([r EXCEPT !.save_dict = NoData,
                                                      !.overlapped = FALSE],
                                            WithRnn(r.rec, written), bd)
               IN /\ requests' = AfterWrite(s, p, built)
                  /\ last' = Replied(built)
     /\ UNCHANGED <<playlist, A, b, alpha, l2, policy, discount, last_selected_id,
                    rnn_model, file, nfeedback>>

\* rec.save_params() of recommend_feedback, first half: the existing entries
SaveRead(s) ==
  /\ requests[s].pc = "save"
  /\ \E seen \in SeenParams(s, GetUserPaths(requests[s].user_id)) :
       requests' = [requests EXCEPT ![s].pc = "write",
                                    ![s].save_dict = ExistingEntries(seen)]
  /\ last' = NoReply
  /\ UNCHANGED <<playlist, A, b, alpha, l2, policy, discount, last_selected_id,
                 rnn_model, file, nfeedback, partitions>>

\* second half: the playlist's A and b laid over them and written
SaveWrite(s) ==
  LET r == requests[s]
      u == r.user_id
      p == GetUserPaths(u)
      new == NpzFile(SavedEntries(r.save_dict, r.rec))
  IN /\ r.pc = "write"
     /\ \E written \in WrittenParams(s, p, new) :
          partitions' = [partitions EXCEPT ![p].params = written]
     /\ requests' = AfterWrite(s, p, [r EXCEPT !.pc = "log", !.save_dict = NoData,
                                               !.overlapped = FALSE])
     /\ last' = NoReply
     /\ UNCHANGED <<playlist, A, b, alpha, l2, policy, discount, last_selected_id,
                    rnn_model, file, nfeedback>>

\* append_feedback_log, first half: the log read
LogRead(s) ==
  /\ requests[s].pc = "log"
  /\ \E seen \in SeenLog(s, GetUserPaths(requests[s].user_id)) :
       requests' = [requests EXCEPT ![s].pc = "log_write", ![s].log = seen]
  /\ last' = NoReply
  /\ UNCHANGED <<playlist, A, b, alpha, l2, policy, discount, last_selected_id,
                 rnn_model, file, nfeedback, partitions>>

\* second half: the log written with the entry appended; {"status": "ok"}
LogWrite(s) ==
  LET r == requests[s]
      u == r.user_id
      p == GetUserPaths(u)
      entry == [song_name |-> r.body.song_name, reward |-> r.body.reward.val]
  IN /\ r.pc = "log_write"
     /\ partitions' = [partitions EXCEPT ![p].log = Append(r.log, entry)]
     /\ requests' = [requests EXCEPT ![s] = Idle]
     /\ last' = Reply("recommend_feedback", u, 200, "", <<>>)
     /\ UNCHANGED <<playlist, A, b, alpha, l2, policy, discount, last_selected_id,
                    rnn_model, file, nfeedback>>

\* the bodies clients send one after another: feedback on song 1 for every
\* user id; for user "u" every song name and reward, well formed or not, in
\* both policies; and feedback on song 2 over all songs or over song 2 alone
FeedbackBodies ==
  {Body(u, 1, Number(1), NoneVal, "LinUCB", <<>>, TRUE, 0) : u \in UserIds}
  \cup
  {Body("u", song_name, reward, NoneVal, pol, <<>>, TRUE, 0) :
     song_name \in {None, 1, 3}, reward \in {NoValue, BadText, Number(1)},
     pol \in PolicySet}
  \cup
  {Body("u", 2, Number(1), candidates, "LinUCB", <<>>, TRUE, 0) :
     candidates \in {NoneVal, Some(<<2>>)}}

QueryBodies ==
  {Body(u, None, NoValue, NoneVal, pol, <<>>, TRUE, 5) :
     u \in UserIds, pol \in PolicySet}
  \cup
  {Body("u", None, NoValue, candidates, "LinUCB", pl, exclude_playlist, 1) :
     candidates \in {NoneVal, Some(<<2>>)}, pl \in {<<>>, <<1>>, <<1, 2>>},
     exclude_playlist \in BOOLEAN}

\* the bodies clients send at the same time: for user "u" feedback on song 1
\* over all songs or on song 2 over song 2 alone; a query over all songs
\* for the user ids "u" and ".."
RacingFeedbackBodies ==
  {Body("u", 1, Number(1), NoneVal, "LinUCB", <<>>, TRUE, 0),
   Body("u", 2, Number(1), Some(<<2>>), "LinUCB", <<>>, TRUE, 0)}

RacingQueryBodies ==
  {Body(u, None, NoValue, NoneVal, "LinUCB", <<>>, TRUE, 5) : u \in {"u", ".."}}

\* the storage the server starts over.  Without user_id: one song uploaded.
GlobalStorage == Storage(TRUE, <<1>>, <<FeaturesOf(1)>>, AbsentFile, <<>>)

\* a snapshot and log left by one feedback of reward 1 on song 1 over the
\* catalog <<1, 2>>
LearnedData ==
  [k \in {"A_1", "b_1", "A_2", "b_2"} |->
     IF k = "A_1" THEN << <<2, 0>>, <<0, 1>> >>
     ELSE IF k = "b_1" THEN <<1, 0>>
     ELSE IF k = "A_2" THEN Eye(2, DefaultL2)
     ELSE Zeros(2)]

\* user "u" with two songs uploaded, with or without earlier feedback
UploadedStorages ==
  {Storage(TRUE, <<1, 2>>, <<FeaturesOf(1), FeaturesOf(2)>>, AbsentFile, <<>>),
   Storage(TRUE, <<1, 2>>, <<FeaturesOf(1), FeaturesOf(2)>>, NpzFile(LearnedData),
           <<[song_name |-> 1, reward |-> 1]>>)}

\* user "u": also never seen, or with the feature file of song 2 deleted
UserStorages ==
  UploadedStorages \cup
  {Storage(FALSE, <<>>, <<>>, AbsentFile, <<>>),
   Storage(TRUE, <<1, 2>>, <<FeaturesOf(1), NoVector>>, AbsentFile, <<>>)}

\* no learner outside the requests
LearnerOff ==
  /\ playlist = <<>>
  /\ A = <<>>
  /\ b = <<>>
  /\ alpha = DefaultAlpha
  /\ l2 = DefaultL2
  /\ policy = "LinUCB"
  /\ discount = <<1, 2>>
  /\ last_selected_id = None
  /\ rnn_model = NoRnn
  /\ file = AbsentFile
  /\ nfeedback = 0

InitOn(storages) ==
  /\ LearnerOff
  /\ \E st \in storages :
       partitions = [p \in Dirs |-> IF p = <<>> THEN GlobalStorage ELSE st]
  /\ requests = [s \in Slots |-> Idle]
  /\ last = NoReply

InitServer == InitOn(UploadedStorages)

InitSerial == InitOn(UserStorages)

\* the steps of the requests handled in the slots given
ServerStep(slots, feedbacks, queries) ==
  \/ \E s \in slots, body \in feedbacks : RecommendFeedback(s, body)
  \/ \E s \in slots, body \in queries : RecommendQuery(s, body)
  \/ \E s \in slots : InitSaveRead(s)
  \/ \E s \in slots : InitSaveWrite(s)
  \/ \E s \in slots : SaveRead(s)
  \/ \E s \in slots : SaveWrite(s)
  \/ \E s \in slots : LogRead(s)
  \/ \E s \in slots : LogWrite(s)

\* requests handled concurrently
NextServer == ServerStep(Slots, RacingFeedbackBodies, RacingQueryBodies)

SpecServer == InitServer /\ [][NextServer]_vars

\* requests handled one after another: each returns before the next starts
NextSerial == ServerStep({1}, FeedbackBodies, QueryBodies)

SpecSerial == InitSerial /\ [][NextSerial]_vars

\* ------------------------------------------------------------------ claims
\* the score selection gave an item in the call `last` records (selection
\* changes nothing, so the state after the call is the state it computed in)
ScoreOf(it) == DiscountedScore(it, last.bd[it.features])

RawScoreOf(it) == UndiscountedScore(it, last.bd[it.features])

PosIn(seq, it) == CHOOSE i \in 1..Len(seq) : seq[i] = it

Min(m, n) == IF m < n THEN m ELSE n

\* a step that is a successful feedback call in LinUCB+ mode: it trains the RNN
TrainStep == last'.op = "feedback" /\ last'.err = "none" /\ policy = "LinUCB+"

FirstTrainStep == TrainStep /\ (rnn_model.X_t_1.none \/ rnn_model.h_t_1.none)

LaterTrainStep == TrainStep /\ ~rnn_model.X_t_1.none /\ ~rnn_model.h_t_1.none

\* the square of the exploration bonus alpha * sqrt(x . A^-1 x) of statistics
\* M for the vector x, as a fraction <<numerator, denominator>> with
\* A^-1 = Adj(M) / Det(M)
BonusSq(M, x) == <<alpha * alpha * Dot(x, MatVec(Adj(M), x)), Det(M)>>

\* a step that is a feedback call that returned
FeedbackStep == last'.op = "feedback" /\ last'.err = "none"

\* the loss of the last optimizer step taken on a tensor
LastLoss(rnn, name) == rnn.params[name].steps[Len(rnn.params[name].steps)]

\* C1: merge-on-save.  When save_params runs against a readable snapshot file,
\* every key of the file that is not A_<id>/b_<id> of a playlist item (other
\* arms, rnn_ arrays) is in the file afterwards with its old value, and
\* A_<id>/b_<id> of every playlist item hold the in-memory A and b.
C1_MergeOnSave ==
  [][(last'.op = "save_params" /\ file.status = "ok") =>
       /\ file'.status = "ok"
       /\ \A k \in DOMAIN file.data :
            (\A id \in PlaylistIds(playlist) : k # Key("A", id) /\ k # Key("b", id))
              => (k \in DOMAIN file'.data /\ file'.data[k] = file.data[k])
       /\ \A id \in PlaylistIds(playlist) :
            /\ Key("A", id) \in DOMAIN file'.data
            /\ Key("b", id) \in DOMAIN file'.data
            /\ file'.data[Key("A", id)] = A[id]
            /\ file'.data[Key("b", id)] = b[id]]_vars

\* a working set of 2 arms with feedback saved over the file of 5 other arms:
\* the file holds all 7 arms, the 5 with their old statistics, and the tensors
C1_Witness ==
  /\ last.op = "save_params"
  /\ PlaylistIds(playlist) = {1, 2}
  /\ nfeedback > 0
  /\ file.status = "ok"
  /\ {id \in 1..7 : Key("A", id) \in DOMAIN file.data /\ Key("b", id) \in DOMAIN file.data} = 1..7
  /\ \A id \in SampleArms : file.data[Key("A", id)] = SampleA(id)
  /\ \E id \in {1, 2} : file.data[Key("A", id)] # Eye(2, l2) /\ file.data[Key("A", id)] = A[id]
  /\ \A name \in ParamNames : RnnKey(name) \in DOMAIN file.data

\* C2: invertibility.  With l2 > 0, after any sequence of feedback calls every
\* arm's A is symmetric positive-definite, so neither the solve of feedback
\* nor the solve and inverse of selection raise.
C2_Invertibility ==
  l2 > 0 =>
    /\ \A id \in DOMAIN A : Symmetric(A[id]) /\ PositiveDefinite(A[id])
    /\ last.err # "LinAlgError"
    /\ SelectionError # "LinAlgError"

\* an arm fed twice with different feature vectors, in LinUCB+ mode
C2_Witness ==
  /\ l2 > 0
  /\ policy = "LinUCB+"
  /\ last.op = "feedback"
  /\ last.err = "none"
  /\ \E id \in DOMAIN A : A[id] = << <<l2 + 2, 1>>, <<1, l2 + 1>> >>

\* C3: a successful feedback(item, reward) makes the fed arm's statistics
\* A + x x^T and b + reward * x, leaves A and b of every other arm as they
\* were, adds and removes no arm, and does not write the snapshot file.
C3_FeedbackLocal ==
  [][(last'.op = "feedback" /\ last'.err = "none") =>
       LET item == last'.item
           x == last'.item.features
       IN /\ A'[item.id] = MatAdd(A[item.id], Outer(x, x))
          /\ b'[item.id] = VecAdd(b[item.id], VecScale(last'.reward, x))
          /\ DOMAIN A' = DOMAIN A
          /\ DOMAIN b' = DOMAIN b
          /\ \A id \in DOMAIN A \ {item.id} : A'[id] = A[id] /\ b'[id] = b[id]
          /\ file' = file]_vars

\* feedback on one of two arms, the other arm holding statistics of its own,
\* with a snapshot file on disk
C3_Witness ==
  /\ last.op = "feedback"
  /\ last.err = "none"
  /\ file.status = "ok"
  /\ \E id \in DOMAIN A : id # last.item.id /\ b[id] # Zeros(2)

\* C4: selection(n) is read-only in LinUCB and LinUCB+ mode: A, b,
\* last_selected_id, the playlist, the RNN (parameters, X_t_1, h_t_1) and the
\* snapshot file are after the call what they were before it.
C4_SelectionReadOnly ==
  [][last'.op = "selection" =>
       UNCHANGED <<playlist, A, b, last_selected_id, rnn_model, file>>]_vars

\* a selection in LinUCB+ mode on a trained RNN, a snapshot file on disk, that
\* returned two items
C4_Witness ==
  /\ last.op = "selection"
  /\ policy = "LinUCB+"
  /\ ~rnn_model.h_t_1.none
  /\ last_selected_id # None
  /\ Len(last.ret) = 2
  /\ file.status = "ok"

\* C5: repeat discount.  When selection ranks the whole playlist with a
\* discount below 1, an arm with the same undiscounted score as the
\* last selected arm comes before the last selected arm, whatever the sign of
\* the score and the order of the two in the playlist.
C5_RepeatDiscount ==
  (last.op = "selection" /\ last.err = "none" /\ last.n >= Len(playlist)
     /\ discount[1] < discount[2]) =>
    \A a, c \in Range(playlist) :
      (a.id = last_selected_id /\ c.id # a.id
         /\ ScoreCmp(RawScoreOf(a), RawScoreOf(c)) = 0)
        => PosIn(last.ret, c) < PosIn(last.ret, a)

\* C6: selection(n) never raises for want of candidates and returns exactly
\* min(n, number of candidates) items when n >= 1, and no item when n <= 0.
C6_SelectionCount ==
  last.op = "selection" =>
    /\ last.err = "none"
    /\ Len(last.ret) = IF last.n >= 1 THEN Min(last.n, Len(playlist)) ELSE 0

\* C7: selection returns candidates in non-increasing order of their
\* (discounted) score, candidates of equal score in their playlist order, and
\* no candidate it leaves out scores above one it returns.
C7_SortedStable ==
  (last.op = "selection" /\ last.err = "none") =>
    /\ \A p \in 1..Len(last.ret) : last.ret[p] \in Range(playlist)
    /\ \A p, q \in 1..Len(last.ret) :
         p < q =>
           /\ ScoreCmp(ScoreOf(last.ret[p]), ScoreOf(last.ret[q])) >= 0
           /\ ScoreCmp(ScoreOf(last.ret[p]), ScoreOf(last.ret[q])) = 0
                => PosIn(playlist, last.ret[p]) < PosIn(playlist, last.ret[q])
    /\ \A it \in Range(playlist) :
         it \notin Range(last.ret) =>
           \A p \in 1..Len(last.ret) : ScoreCmp(ScoreOf(last.ret[p]), ScoreOf(it)) >= 0

\* two arms of equal score returned after feedback, the last selected arm
\* second in the playlist and second in the result
C7_Witness ==
  /\ last.op = "selection"
  /\ last.err = "none"
  /\ Len(last.ret) = 2
  /\ last_selected_id = playlist[2].id
  /\ discount[1] < discount[2]
  /\ ScoreCmp(ScoreOf(last.ret[1]), ScoreOf(last.ret[2])) = 0
  /\ last.ret[2] = playlist[2]

\* C8 as claimed: the first train_per_update call on an uninitialized RNN
\* takes no optimizer step (every tensor keeps its value) and leaves
\* X_t_1 = x, h_t_1 = the zero vector.
C8_FirstCallSeedsOnly ==
  [][FirstTrainStep =>
       /\ rnn_model'.params = rnn_model.params
       /\ rnn_model'.X_t_1 = Some(last'.item.features)
       /\ rnn_model'.h_t_1 = Some(ZeroHidden)]_vars

\* C8 as amended: the first train_per_update call seeds the deferred state
\* with (x, 0) and trains in the same call: it applies the cell to (x, 0)
\* under the parameters it starts with, takes one optimizer step on the loss
\* of that prediction, and leaves X_t_1 = x and h_t_1 = cell(x, 0).
C8_FirstCallTrains ==
  [][FirstTrainStep =>
       LET x == last'.item.features
           pv == ParamsVersion(rnn_model)
           h == Cell(pv, x, ZeroHidden)
           loss == MseLoss(Output(pv, h), x, ResidualReward(last'.item, last'.reward))
       IN /\ rnn_model'.X_t_1 = Some(x)
          /\ rnn_model'.h_t_1 = Some(h)
          /\ rnn_model'.beta_t = Some(Output(pv, h))
          /\ \A name \in ParamNames :
               rnn_model'.params[name].steps = Append(rnn_model.params[name].steps, loss)]_vars

\* the RNN after its first training call: one cell application, one step
C8_Witness ==
  /\ policy = "LinUCB+"
  /\ nfeedback = 1
  /\ last.op = "feedback"
  /\ last.err = "none"
  /\ rnn_model.X_t_1 = Some(last.item.features)
  /\ Len(rnn_model.h_t_1.val) = 1
  /\ \A name \in ParamNames : Len(rnn_model.params[name].steps) = 1

\* C9: delayed bootstrap.  On every train_per_update call after the first,
\* (h_now, beta_hat) is the cell applied to the X_t_1 and h_t_1 the previous
\* call stored (not to the input of this call), and after the call
\* h_t_1 = h_now and X_t_1 = the input of this call.
C9_DelayedBootstrap ==
  [][LaterTrainStep =>
       LET pv == ParamsVersion(rnn_model)
           h_now == Cell(pv, rnn_model.X_t_1.val, rnn_model.h_t_1.val)
       IN /\ rnn_model'.h_t_1 = Some(h_now)
          /\ rnn_model'.beta_t = Some(Output(pv, h_now))
          /\ rnn_model'.X_t_1 = Some(last'.item.features)]_vars

\* a second training call whose input differs from the first call's
C9_Witness ==
  /\ policy = "LinUCB+"
  /\ last.op = "feedback"
  /\ last.err = "none"
  /\ Len(rnn_model.h_t_1.val) = 2
  /\ rnn_model.h_t_1.val[2].x # rnn_model.X_t_1.val
  /\ rnn_model.X_t_1.val = last.item.features

\* C10 as claimed: after the first call, the loss of train_per_update is the
\* squared error between the target and beta_hat . X_t_1, X_t_1 being the
\* input the previous call stored.
C10_LossOnLastInput ==
  [][LaterTrainStep =>
       \A name \in ParamNames :
         /\ LastLoss(rnn_model', name).beta = rnn_model'.beta_t.val
         /\ LastLoss(rnn_model', name).x = rnn_model.X_t_1.val]_vars

\* C10 as amended: the loss of train_per_update is the squared error between
\* the target and beta_hat . x, x being the input of the current call and
\* beta_hat the output of the cell applied to the stored X_t_1 and h_t_1.
C10_LossOnCurrentInput ==
  [][TrainStep =>
       \A name \in ParamNames :
         /\ Len(rnn_model'.params[name].steps) = Len(rnn_model.params[name].steps) + 1
         /\ LastLoss(rnn_model', name).beta = rnn_model'.beta_t.val
         /\ LastLoss(rnn_model', name).x = last'.item.features
         /\ LastLoss(rnn_model', name).y = ResidualReward(last'.item, last'.reward)
         /\ LaterTrainStep =>
              LastLoss(rnn_model', name).beta.h =
                Cell(ParamsVersion(rnn_model), rnn_model.X_t_1.val, rnn_model.h_t_1.val)]_vars

\* a second optimizer step whose loss dots beta_hat, computed from the first
\* call's input, with the different input of the second call
C10_Witness ==
  /\ policy = "LinUCB+"
  /\ last.op = "feedback"
  /\ last.err = "none"
  /\ Len(rnn_model.params["W_output"].steps) = 2
  /\ LET loss == LastLoss(rnn_model, "W_output")
     IN /\ loss.x = last.item.features
        /\ loss.beta.h[Len(loss.beta.h)].x # loss.x

\* C13: in LinUCB+ mode feedback trains the RNN on the residual
\* reward - theta . x with theta solved from the arm's A and b as they are
\* before this feedback's rank-1 update, and the update follows the training.
C13_ResidualPreUpdate ==
  [][TrainStep =>
       LET item == last'.item
           x == item.features
           pre == Residual(A[item.id], b[item.id], x, last'.reward)
       IN /\ \A name \in ParamNames : LastLoss(rnn_model', name).y = pre
          /\ A'[item.id] = MatAdd(A[item.id], Outer(x, x))
          /\ b'[item.id] = VecAdd(b[item.id], VecScale(last'.reward, x))]_vars

\* a training step whose residual differs from the one the updated
\* statistics give: the arm had feedback before, on the same features
C13_Witness ==
  /\ policy = "LinUCB+"
  /\ last.op = "feedback"
  /\ last.err = "none"
  /\ nfeedback = 2
  /\ LET item == last.item
         x == item.features
         M == A[item.id]
         v == b[item.id]
         Mpre == MatAdd(M, Outer(VecScale(-1, x), x))
         vpre == VecAdd(v, VecScale(-last.reward, x))
     IN /\ Mpre # Eye(2, l2)
        /\ Det(Mpre) # 0
        /\ Det(M) # 0
        /\ LastLoss(rnn_model, "W_ih").y = Residual(Mpre, vpre, x, last.reward)
        /\ LastLoss(rnn_model, "W_ih").y # Residual(M, v, x, last.reward)

\* C18: save_params does not abort on an unreadable snapshot: over a corrupt
\* or absent file it starts from no entries and writes a readable file that
\* holds exactly A_<id> and b_<id> of the playlist's items.
C18_SaveOverUnreadable ==
  [][(last'.op = "save_params" /\ file.status \in {"corrupt", "absent"}) =>
       /\ last'.err = "none"
       /\ file'.status = "ok"
       /\ DOMAIN file'.data =
            {Key("A", id) : id \in PlaylistIds(playlist)}
              \cup {Key("b", id) : id \in PlaylistIds(playlist)}
       /\ \A id \in PlaylistIds(playlist) :
            /\ file'.data[Key("A", id)] = A[id]
            /\ file'.data[Key("b", id)] = b[id]]_vars

\* two arms with feedback saved into a file that holds nothing else
C18_Witness ==
  /\ last.op = "save_params"
  /\ Len(playlist) = 2
  /\ nfeedback > 0
  /\ file.status = "ok"
  /\ DOMAIN file.data =
       {Key("A", id) : id \in PlaylistIds(playlist)}
         \cup {Key("b", id) : id \in PlaylistIds(playlist)}
  /\ \E id \in PlaylistIds(playlist) :
       file.data[Key("A", id)] # Eye(2, l2) /\ file.data[Key("A", id)] = A[id]

\* C11: the RNN's deferred state (X_t_1, h_t_1) is None until the first
\* train_per_update call and is changed by train_per_update only: a forward
\* call, with any input and hidden state, leaves the RNN exactly as it was.
C11_ForwardKeepsState ==
  [][/\ nfeedback = 0 => (rnn_model.X_t_1.none /\ rnn_model.h_t_1.none)
     /\ last'.op = "forward" => rnn_model' = rnn_model
     /\ (rnn_model'.X_t_1 # rnn_model.X_t_1 \/ rnn_model'.h_t_1 # rnn_model.h_t_1)
          => last'.op = "train_per_update"]_vars

\* a forward call on a trained RNN, from a hidden state and an input that are
\* not the stored ones, that returned a hidden state other than the stored
C11_Witness ==
  /\ last.op = "forward"
  /\ last.err = "none"
  /\ ~rnn_model.h_t_1.none
  /\ last.bd # rnn_model.h_t_1
  /\ last.item.features # rnn_model.X_t_1.val
  /\ last.ret[1] # rnn_model.h_t_1.val

\* C20: round trip of the RNN's parameters.  save_model stores every tensor
\* under rnn_<name>, and load_model on an RNN of the same dim and hidden_size
\* restores exactly the stored tensors; load_model keeps the tensor it has
\* when the stored array is missing or of another shape, and still loads
\* the others.
C20_ModelRoundTrip ==
  [][/\ last'.op = "save_model" =>
          /\ file'.status = "ok"
          /\ \A name \in ParamNames : file'.data[RnnKey(name)] = rnn_model.params[name]
          /\ LoadModel(RnnInit(rnn_model.dim, rnn_model.hidden_size, 2), file').params
               = rnn_model.params
     /\ (last'.op = "load_model" /\ last'.err = "none") =>
          \A name \in ParamNames :
            rnn_model'.params[name] =
              IF /\ RnnKey(name) \in DOMAIN file.data
                 /\ file.data[RnnKey(name)].shape
                      = ParamShape(name, rnn_model.dim, rnn_model.hidden_size)
              THEN file.data[RnnKey(name)]
              ELSE rnn_model.params[name]]_vars

\* an RNN trained once, saved, trained again and loaded: every tensor is back
\* at the saved value, one optimizer step after its initialization
C20_Witness ==
  /\ last.op = "load_model"
  /\ last.err = "none"
  /\ nfeedback = 2
  /\ file.status = "ok"
  /\ \A name \in ParamNames :
       /\ rnn_model.params[name] = file.data[RnnKey(name)]
       /\ rnn_model.params[name].seed = 1
       /\ Len(rnn_model.params[name].steps) = 1

\* C12: feedback(item, reward) first ensures the arm: for an id without
\* statistics it initializes A = l2 * I and b = 0 and applies the update,
\* without raising.
C12_FeedbackEnsuresArm ==
  [][(last'.op = "feedback" /\ last'.item.id \notin DOMAIN A) =>
       LET item == last'.item
           x == item.features
       IN /\ last'.err = "none"
          /\ item.id \in DOMAIN A'
          /\ A'[item.id] = MatAdd(Eye(Len(x), l2), Outer(x, x))
          /\ b'[item.id] = VecScale(last'.reward, x)]_vars

\* C14: last_selected_id is None when the constructor returns, every
\* feedback(item, reward) that returns sets it to item.id (one that raises
\* leaves it), and selection, save_params and load_params leave it unchanged.
C14_LastSelected ==
  [][/\ (last'.op = "__init__" /\ last'.err = "none") => last_selected_id' = None
     /\ (last'.op = "feedback" /\ last'.err = "none") => last_selected_id' = last'.item.id
     /\ (last'.op = "feedback" /\ last'.err # "none") => last_selected_id' = last_selected_id
     /\ last'.op \in {"selection", "save_params", "load_params"}
          => last_selected_id' = last_selected_id]_vars

\* after feedback on item 2, a load_params call that replaced statistics
C14_Witness ==
  /\ last.op = "load_params"
  /\ last.err = "none"
  /\ nfeedback > 0
  /\ last_selected_id = 2
  /\ Len(A[1]) = 3

\* C15: a feedback or selection call in which an arm's feature vector length
\* differs from the dimension of the arm's stored A ends in an error, and
\* leaves A and b of every arm as they were.
C15_MismatchFatal ==
  [][(\/ /\ last'.op = "feedback"
           /\ last'.item.id \in DOMAIN A
           /\ Len(last'.item.features) # Len(A[last'.item.id])
       \/ /\ last'.op = "selection"
           /\ \E i \in 1..Len(playlist) :
                Len(playlist[i].features) # Len(A[playlist[i].id])) =>
       /\ last'.err # "none"
       /\ A' = A
       /\ b' = b]_vars

\* C16: load_params sets, for each item of the playlist, A and b to the
\* file's A_<id> and b_<id> when both are there and have the item's feature
\* dimension, and to l2 * I and zeros otherwise; arms outside the playlist
\* keep what they have.
C16_LoadChecksDimension ==
  [][(last'.op = "load_params" /\ last'.err = "none") =>
       /\ DOMAIN A' = DOMAIN A \cup PlaylistIds(playlist)
       /\ \A id \in DOMAIN A \ PlaylistIds(playlist) : A'[id] = A[id] /\ b'[id] = b[id]
       /\ \A i \in 1..Len(playlist) :
            LET it == playlist[i]
                d == Len(it.features)
                usable == /\ Key("A", it.id) \in DOMAIN file.data
                          /\ Key("b", it.id) \in DOMAIN file.data
                          /\ Len(file.data[Key("A", it.id)]) = d
                          /\ Len(file.data[Key("b", it.id)]) = d
            IN /\ A'[it.id] = IF usable THEN file.data[Key("A", it.id)] ELSE Eye(d, l2)
               /\ b'[it.id] = IF usable THEN file.data[Key("b", it.id)] ELSE Zeros(d)]_vars

\* C17: an unreadable snapshot is not fatal on load: the constructor called
\* with initialization=False (LinUCB mode, l2 > 0, a playlist of items) on an
\* absent or corrupt file returns, with every playlist arm at A = l2 * I, b = 0.
C17_UnreadableNotFatal ==
  (/\ last.op = "__init__"
   /\ ~last.args.initialization
   /\ last.args.policy = "LinUCB"
   /\ last.args.l2 > 0
   /\ Len(last.args.playlist) > 0
   /\ last.args.storage \in {"absent", "corrupt"}) =>
    /\ last.err = "none"
    /\ playlist = last.args.playlist
    /\ \A i \in 1..Len(playlist) :
         /\ A[playlist[i].id] = Eye(Len(playlist[i].features), l2)
         /\ b[playlist[i].id] = Zeros(Len(playlist[i].features))

\* C19: a non-positive ridge weight is rejected at construction: the
\* constructor raises for l2 <= 0, so no learner has l2 <= 0.
C19_RidgeRejected ==
  /\ (last.op = "__init__" /\ last.args.l2 <= 0) => last.err # "none"
  /\ Constructed => l2 > 0

\* C23: remove_item(item) applies one feedback with a large negative reward
\* and then discards the arm: after a call that returned, the item is not in
\* the playlist and the in-memory maps hold A and b for the ids of the
\* playlist only.
C23_RemoveDiscardsArm ==
  (last.op = "remove_item" /\ last.err = "none") =>
    /\ last.item \notin Range(playlist)
    /\ DOMAIN A = PlaylistIds(playlist)
    /\ DOMAIN b = PlaylistIds(playlist)

\* C24: add_item(item), for an item without statistics in memory and in the
\* snapshot, returns with the item appended, A = l2*I + x x^T and
\* b = 0.01*x for it (one feedback with the seed reward), and A and b of every
\* arm that was in the playlist as they were before the call.
C24_AddItemSeeds ==
  [][(/\ last'.op = "add_item"
      /\ last'.err = "none"
      /\ last'.item.id \notin DOMAIN A
      /\ file.status = "ok" =>
           /\ Key("A", last'.item.id) \notin DOMAIN file.data
           /\ Key("b", last'.item.id) \notin DOMAIN file.data)
     => LET item == last'.item
            x == item.features
        IN /\ playlist' = Append(playlist, item)
           /\ A'[item.id] = MatAdd(Eye(Len(x), l2), Outer(x, x))
           /\ b'[item.id] = VecScale(SeedReward, x)
           /\ \A id \in PlaylistIds(playlist) : A'[id] = A[id] /\ b'[id] = b[id]]_vars

\* add_item has returned for a new item, which now has the seeded statistics,
\* next to an arm whose statistics are not the initial ones
C24_Witness ==
  /\ last.op = "add_item"
  /\ last.err = "none"
  /\ Len(playlist) >= 2
  /\ playlist[Len(playlist)] = last.item
  /\ A[last.item.id] = MatAdd(Eye(Len(last.item.features), l2),
                              Outer(last.item.features, last.item.features))
  /\ b[last.item.id] = VecScale(SeedReward, last.item.features)
  /\ \E id \in PlaylistIds(playlist) \ {last.item.id} :
       A[id] # Eye(Len(A[id]), l2)

\* C26: save_params writes the RNN's trainable parameters into the snapshot:
\* after a feedback in LinUCB+ mode followed by save_params, a learner
\* constructed from the same snapshot starts with the parameters that
\* feedback produced.
C26_SaveKeepsResidualModel ==
  [][(/\ last.op = "save_params"
      /\ policy = "LinUCB+"
      /\ \E name \in ParamNames : Len(rnn_model.params[name].steps) > 0
      /\ last'.op = "__init__"
      /\ last'.err = "none")
     => rnn_model'.params = rnn_model.params]_vars

\* C27 as stated: every feedback on an arm with feature vector x makes the
\* arm's exploration bonus for x strictly smaller (for an arm whose A is
\* positive definite, so that the bonus exists).  The bonuses are not
\* negative and the determinants are positive, so the squares are compared,
\* cross-multiplied.
C27_BonusShrinksAlways ==
  [][(FeedbackStep /\ PositiveDefinite(A[last'.item.id])) =>
       LET id == last'.item.id
           x == last'.item.features
       IN BonusSq(A'[id], x)[1] * BonusSq(A[id], x)[2]
            < BonusSq(A[id], x)[1] * BonusSq(A'[id], x)[2]]_vars

\* C27 (amended): a feedback on an arm whose A is positive definite, with
\* feature vector x, makes the arm's exploration bonus for x strictly smaller
\* when alpha > 0 and x is not the zero vector; otherwise the bonus is 0
\* before and after.
C27_BonusShrinks ==
  [][(FeedbackStep /\ alpha >= 0 /\ PositiveDefinite(A[last'.item.id])) =>
       LET id == last'.item.id
           x == last'.item.features
           before == BonusSq(A[id], x)
           after == BonusSq(A'[id], x)
       IN /\ after[2] > 0
          /\ IF alpha > 0 /\ \E i \in 1..Len(x) : x[i] # 0
             THEN after[1] * before[2] < before[1] * after[2]
             ELSE before[1] = 0 /\ after[1] = 0]_vars

\* a first feedback has been given on an arm with alpha > 0: its bonus for x
\* is below the bonus of the initial statistics
C27_Witness ==
  /\ last.op = "feedback"
  /\ last.err = "none"
  /\ alpha > 0
  /\ A[last.item.id] = MatAdd(Eye(Len(last.item.features), l2),
                              Outer(last.item.features, last.item.features))
  /\ BonusSq(A[last.item.id], last.item.features)[1]
       * BonusSq(Eye(Len(last.item.features), l2), last.item.features)[2]
     < BonusSq(Eye(Len(last.item.features), l2), last.item.features)[1]
       * BonusSq(A[last.item.id], last.item.features)[2]

\* the directory that belongs to a user id: STORAGE_DIR without one,
\* STORAGE_DIR/users/<user_id> with one
OwnDir(user_id) == IF user_id = "" THEN <<>> ELSE <<"users", user_id>>

\* the user ids of the requests that take the step: a request in flight
\* that moves on, one that arrives, one that is answered
StepUsers ==
  {v \in UserIds :
     \/ last' # NoReply /\ last'.user_id = v
     \/ \E s \in Slots :
          /\ requests[s].pc # "idle"
          /\ requests'[s].pc # requests[s].pc
          /\ requests[s].user_id = v
     \/ \E s \in Slots :
          /\ requests[s].pc = "idle"
          /\ requests'[s].pc # "idle"
          /\ requests'[s].user_id = v}

\* the server is at rest: no request in flight
AtRest == \A s \in Slots : requests[s].pc = "idle"

\* l2*I + the sum of x x^T over the first k feedbacks of the log given to id
RECURSIVE SumA(_, _, _, _)
SumA(log, id, x, k) ==
  IF k = 0 THEN Eye(Len(x), DefaultL2)
  ELSE IF log[k].song_name = id THEN MatAdd(SumA(log, id, x, k - 1), Outer(x, x))
  ELSE SumA(log, id, x, k - 1)

\* the sum of reward*x over them
RECURSIVE SumB(_, _, _, _)
SumB(log, id, x, k) ==
  IF k = 0 THEN Zeros(Len(x))
  ELSE IF log[k].song_name = id
  THEN VecAdd(SumB(log, id, x, k - 1), [i \in 1..Len(x) |-> log[k].reward * x[i]])
  ELSE SumB(log, id, x, k - 1)

\* C21: the save of a feedback request writes, for every arm of its
\* playlist, the A and b of its own learner (what it loaded plus its own
\* update), whatever the snapshot holds by then; so of two feedback requests
\* on one partition whose loads and saves interleave, the one that writes
\* last leaves a snapshot without the other's rank-1 update (C21_Witness).
C21_SaveWritesOwnStatistics ==
  [][\A s \in Slots :
       (requests[s].pc = "write" /\ requests'[s].pc = "log") =>
         LET p == GetUserPaths(requests[s].user_id)
             rec == requests[s].rec
         IN partitions'[p].params.status = "ok" =>
              \A id \in PlaylistIds(rec.playlist) :
                /\ partitions'[p].params.data[Key("A", id)] = rec.A[id]
                /\ partitions'[p].params.data[Key("b", id)] = rec.b[id]]_vars

\* two feedback requests on song 1 of user "u", started over no snapshot,
\* have both saved: the snapshot holds one rank-1 update, not two
C21_Witness ==
  /\ \A s \in Slots :
       /\ requests[s].kind = "recommend_feedback"
       /\ requests[s].user_id = "u"
       /\ requests[s].body.song_name = 1
       /\ requests[s].pc \in {"log", "log_write"}
  /\ partitions[<<"users", "u">>].log = <<>>
  /\ partitions[<<"users", "u">>].params.status = "ok"
  /\ partitions[<<"users", "u">>].params.data["A_1"] = << <<2, 0>>, <<0, 1>> >>
  /\ partitions[<<"users", "u">>].params.data["b_1"] = <<1, 0>>

\* C22: a step of a request changes the snapshot, catalog and feedback log
\* of no directory but the one of the request's own user id.
C22_PartitionsIndependent ==
  [][\A p \in Dirs :
       partitions'[p] # partitions[p] => \E v \in StepUsers : OwnDir(v) = p]_vars

\* C25: a query is never answered with an error for candidates that lack a
\* feature vector.
C25_MissingFeaturesNeverFail ==
  ~(last.op = "recommend_query" /\ last.error = "no candidates with features available")

\* C28: a step that rejects a feedback request (song_name or reward missing,
\* reward not a number, song not in the catalog) leaves the snapshot and the
\* feedback log of every partition as they were.
C28_RejectedFeedbackChangesNothing ==
  [][(/\ last'.op = "recommend_feedback"
      /\ <<last'.status, last'.error>> \in
           {<<400, "song_name and reward are required">>, <<400, "invalid reward">>,
            <<404, "song_name not found">>})
     => \A p \in Dirs :
          /\ partitions'[p].params = partitions[p].params
          /\ partitions'[p].log = partitions[p].log]_vars

\* feedback on a song that is not in the catalog of a user with a snapshot
\* and a log was rejected
C28_Witness ==
  /\ last.op = "recommend_feedback"
  /\ last.status = 404
  /\ last.user_id = "u"
  /\ partitions[<<"users", "u">>].params = NpzFile(LearnedData)
  /\ partitions[<<"users", "u">>].log # <<>>

\* C29: no step of a query request replaces an entry of a readable snapshot
\* by a different value.
C29_QueryNeverOverwrites ==
  [][\A s \in Slots :
       (/\ requests[s].kind = "recommend_query"
        /\ requests[s].pc # "idle"
        /\ requests'[s].pc # requests[s].pc) =>
         LET p == GetUserPaths(requests[s].user_id)
             old == partitions[p].params
             new == partitions'[p].params
         IN (old.status = "ok" /\ new.status = "ok") =>
              \A k \in DOMAIN old.data :
                k \in DOMAIN new.data => new.data[k] = old.data[k]]_vars

\* C30: when requests run one after another and none is in flight, every
\* snapshot is readable or absent, holds an entry for every song the log
\* records feedback for, and every entry A_<id>, b_<id> of a song is
\* l2*I + the sum of x x^T, and the sum of reward*x, over the feedback the
\* log records for the song.
C30_SequentialFeedbackLosesNothing ==
  AtRest =>
    \A p \in Dirs :
      LET part == partitions[p]
          log == part.log
      IN /\ part.params.status # "corrupt"
         /\ \A id \in Range(part.songs) :
              part.features[id] # NoVector =>
                /\ (\E k \in 1..Len(log) : log[k].song_name = id) =>
                     /\ part.params.status = "ok"
                     /\ Key("A", id) \in DOMAIN part.params.data
                /\ (part.params.status = "ok" /\ Key("A", id) \in DOMAIN part.params.data) =>
                     /\ part.params.data[Key("A", id)] =
                          SumA(log, id, part.features[id], Len(log))
                     /\ part.params.data[Key("b", id)] =
                          SumB(log, id, part.features[id], Len(log))

\* after earlier feedback on song 1, feedback on song 1 over all songs and
\* feedback on song 2 over song 2 alone: all three are in the snapshot
C30_Witness ==
  /\ AtRest
  /\ Len(partitions[<<"users", "u">>].log) = 3
  /\ partitions[<<"users", "u">>].params.status = "ok"
  /\ partitions[<<"users", "u">>].params.data["A_1"] = << <<3, 0>>, <<0, 1>> >>
  /\ partitions[<<"users", "u">>].params.data["A_2"] = << <<1, 0>>, <<0, 2>> >>

====
